---- MODULE Spec2Model ----
(***************************************************************************)
(* BookFlow: the PDF extraction service (services/pdf_extractor.py).       *)
(*                                                                         *)
(* A text is a sequence of characters.  An ASCII character is the          *)
(* one-character string; a non-ASCII character is one named token:         *)
(*   "bullet" U+2022, "wbullet" U+25E6, "sqbullet" U+25AA,                 *)
(*   "ldquo" U+201C, "rdquo" U+201D, "laquo" U+00AB,                       *)
(*   "emdash" U+2014, "endash" U+2013,                                     *)
(*   "Iacute" "iacute" "aacute" "ccedil" "atilde" the accented letters.    *)
(* Font sizes are integral numbers of points (PyMuPDF reports floats; an   *)
(* integral float compares and hashes as the integer).                     *)
(***************************************************************************)
EXTENDS Integers, Sequences, FiniteSets, TLC

(***************************************************************************)
(* Characters and character classes of the regular expressions.            *)
(***************************************************************************)
DQ == "\""

Digits == {"0", "1", "2", "3", "4", "5", "6", "7", "8", "9"}

\* \s, and the separator of str.split() and str.strip()
Space == {" "}

LowerSeq ==
  <<"a", "b", "c", "d", "e", "f", "g", "h", "i", "j", "k", "l", "m",
    "n", "o", "p", "q", "r", "s", "t", "u", "v", "w", "x", "y", "z",
    "iacute", "aacute", "ccedil", "atilde">>

UpperSeq ==
  <<"A", "B", "C", "D", "E", "F", "G", "H", "I", "J", "K", "L", "M",
    "N", "O", "P", "Q", "R", "S", "T", "U", "V", "W", "X", "Y", "Z",
    "Iacute", "Aacute", "Ccedil", "Atilde">>

AsciiLower == {LowerSeq[i] : i \in 1..26}
AsciiUpper == {UpperSeq[i] : i \in 1..26}
AsciiLetters == AsciiLower \cup AsciiUpper

\* str.lower() on one character
LowerChar(c) ==
  IF \E i \in 1..Len(UpperSeq) : UpperSeq[i] = c
    THEN LowerSeq[CHOOSE i \in 1..Len(UpperSeq) : UpperSeq[i] = c]
    ELSE c

LowerText(t) == [i \in 1..Len(t) |-> LowerChar(t[i])]

\* a string literal of a pattern, as the characters it matches
Lit(t) == [i \in 1..Len(t) |-> {t[i]}]

\* the other case of a letter, and any other character itself
SwapCase(c) ==
  IF \E i \in 1..Len(UpperSeq) : UpperSeq[i] = c
    THEN LowerSeq[CHOOSE i \in 1..Len(UpperSeq) : UpperSeq[i] = c]
  ELSE IF \E i \in 1..Len(LowerSeq) : LowerSeq[i] = c
    THEN UpperSeq[CHOOSE i \in 1..Len(LowerSeq) : LowerSeq[i] = c]
  ELSE c

\* the same under re.IGNORECASE
LitI(t) == [i \in 1..Len(t) |-> {t[i], SwapCase(t[i])}]

\* a character class under re.IGNORECASE
ClassI(C) == C \cup {SwapCase(c) : c \in C}

(***************************************************************************)
(* Matching.  A position is an index into the text; a match that starts at *)
(* position i and consumes k characters ends at position i + k.            *)
(***************************************************************************)

\* the position after the longest run of characters of C that starts at i
SkipClass(t, i, C) ==
  CHOOSE j \in i..(Len(t) + 1) :
    /\ \A k \in i..(j - 1) : t[k] \in C
    /\ (j = Len(t) + 1 \/ t[j] \notin C)

\* the literal lit (a sequence of character sets) matches at position i
MatchesAt(t, i, lit) ==
  /\ i + Len(lit) - 1 <= Len(t)
  /\ \A k \in 1..Len(lit) : t[i + k - 1] \in lit[k]

\* str.startswith
StartsWith(t, s) == MatchesAt(t, 1, Lit(s))

\* str.strip()
Strip(t) ==
  LET first == SkipClass(t, 1, Space)
  IN  IF first > Len(t) THEN <<>>
      ELSE LET last == CHOOSE j \in first..Len(t) :
                         /\ t[j] \notin Space
                         /\ \A k \in (j + 1)..Len(t) : t[k] \in Space
           IN  SubSeq(t, first, last)

\* len(text.split()): the number of maximal runs of non-space characters
WordCount(t) ==
  Cardinality({i \in 1..Len(t) :
                 t[i] \notin Space /\ (i = 1 \/ t[i - 1] \in Space)})

(***************************************************************************)
(* PDFExtractor: class constants.  The thresholds are decimal fractions;   *)
(* they are kept as tenths and compared by cross-multiplication.           *)
(***************************************************************************)
\* HEADING_SIZE_MULTIPLIER = 1.2, in tenths
HEADING_SIZE_MULTIPLIER == 12

\* the initial base_font_size of __init__
DefaultBaseFontSize == 12

\* Chapter(title="Início", ...): the title of the leading chapter
Inicio == <<"I", "n", "iacute", "c", "i", "o">>

\* "Livro sem título"
LivroSemTitulo ==
  <<"L", "i", "v", "r", "o", " ", "s", "e", "m", " ",
    "t", "iacute", "t", "u", "l", "o">>

RomanDigits == {"I", "V", "X", "L", "C", "D", "M"}

\* [A-ZÁÀÂÃÉÈÊÍÏÓÔÕÖÚÇ] restricted to the alphabet of the model
ChapterInitial == AsciiUpper \cup {"Aacute", "Atilde", "Iacute", "Ccedil"}

\* the openers of CHAPTER_PATTERNS[0] and [1], longest alternative first
ChapterWords ==
  << <<"C", "A", "P", "Iacute", "T", "U", "L", "O">>,
     <<"C", "H", "A", "P", "T", "E", "R">>,
     <<"C", "A", "P", ".">>,
     <<"C", "A", "P">> >>

PartWords ==
  << <<"P", "A", "R", "T", "E">>, <<"P", "A", "R", "T">> >>

ChapterWordsI == [w \in 1..Len(ChapterWords) |-> LitI(ChapterWords[w])]
PartWordsI    == [w \in 1..Len(PartWords) |-> LitI(PartWords[w])]

\* [IVXLCDM\d] and the two initial classes under re.IGNORECASE
RomanOrDigitI   == ClassI(RomanDigits) \cup Digits
RomanI          == ClassI(RomanDigits)
ChapterInitialI == ClassI(ChapterInitial)

\* (?:w1|w2|...)\s*[IVXLCDM\d]+[:\.\s]  under re.IGNORECASE
OpenerPattern(t, words) ==
  \E w \in 1..Len(words) :
    /\ MatchesAt(t, 1, words[w])
    /\ LET a == SkipClass(t, Len(words[w]) + 1, Space)
           b == SkipClass(t, a, RomanOrDigitI)
       IN  /\ b > a
           /\ b <= Len(t)
           /\ t[b] \in {":", "."} \cup Space

\* ^<class>+\.\s+[A-Z...]  under re.IGNORECASE
NumberedPattern(t, C) ==
  LET a == SkipClass(t, 1, C)
  IN  /\ a > 1
      /\ a <= Len(t)
      /\ t[a] = "."
      /\ LET b == SkipClass(t, a + 1, Space)
         IN  /\ b > a + 1
             /\ b <= Len(t)
             /\ t[b] \in ChapterInitialI

\* CHAPTER_PATTERNS, any of them matching with re.match(..., re.IGNORECASE)
MatchesChapterPattern(t) ==
  \/ OpenerPattern(t, ChapterWordsI)
  \/ OpenerPattern(t, PartWordsI)
  \/ NumberedPattern(t, Digits)
  \/ NumberedPattern(t, RomanI)

(***************************************************************************)
(* The classification predicates.  base is self.base_font_size.            *)
(***************************************************************************)
IsHeading(block, base) ==
  IF Len(block.text) < 2 \/ Len(block.text) > 200 THEN FALSE
  ELSE IF block.font_size * 10 >= base * HEADING_SIZE_MULTIPLIER THEN TRUE
  ELSE IF block.is_bold /\ block.font_size >= base THEN TRUE
  ELSE MatchesChapterPattern(block.text)

PageWords ==
  << <<"p", "aacute", "g", "i", "n", "a">>,
     <<"p", "a", "g", "e">>,
     <<"p", "aacute", "g", ".">>,
     <<"p", "aacute", "g">> >>

OfWords == << <<"d", "e">>, <<"o", "f">>, <<"/">> >>

PageWordsI == [w \in 1..Len(PageWords) |-> LitI(PageWords[w])]
OfWordsI   == [w \in 1..Len(OfWords) |-> LitI(OfWords[w])]

IsPageNumber(t) ==
  \* ^\d{1,4}$
  \/ /\ Len(t) \in 1..4
     /\ \A i \in 1..Len(t) : t[i] \in Digits
  \* ^(página|page|pág\.?)\s*\d+
  \/ \E w \in 1..Len(PageWords) :
       /\ MatchesAt(t, 1, PageWordsI[w])
       /\ LET a == SkipClass(t, Len(PageWords[w]) + 1, Space)
          IN  a <= Len(t) /\ t[a] \in Digits
  \* ^\d+\s*(de|of|/)\s*\d+$
  \/ LET a == SkipClass(t, 1, Digits)
         b == SkipClass(t, a, Space)
     IN  /\ a > 1
         /\ \E w \in 1..Len(OfWords) :
              /\ MatchesAt(t, b, OfWordsI[w])
              /\ LET c == SkipClass(t, b + Len(OfWords[w]), Space)
                     d == SkipClass(t, c, Digits)
                 IN  d > c /\ d = Len(t) + 1

IsQuote(t) ==
  \/ StartsWith(t, <<DQ>>)
  \/ StartsWith(t, <<"laquo">>)
  \/ StartsWith(t, <<"emdash">>)
  \/ StartsWith(t, <<"endash">>)

BulletGlyphs == {"bullet", "-", "*", "wbullet", "sqbullet"}

\* ^\s*<class><one of sep>\s+ where the class is matched once or greedily
MarkerPattern(t, C, many, seps) ==
  LET a == SkipClass(t, 1, Space)
      b == IF many THEN SkipClass(t, a, C)
           ELSE IF a <= Len(t) /\ t[a] \in C THEN a + 1 ELSE a
      c == IF seps = {} THEN b
           ELSE IF b <= Len(t) /\ t[b] \in seps THEN b + 1 ELSE 0
  IN  /\ b > a
      /\ c > 0
      /\ c <= Len(t)
      /\ t[c] \in Space

IsListItem(t) ==
  \/ MarkerPattern(t, BulletGlyphs, FALSE, {})
  \/ MarkerPattern(t, Digits, TRUE, {".", ")"})
  \/ MarkerPattern(t, AsciiLetters, FALSE, {".", ")"})
  \/ MarkerPattern(t, {"i", "v", "x", "I", "V", "X"}, TRUE, {".", ")"})

BlockTypes == {"footer", "heading", "quote", "list_item", "paragraph"}

\* mutant: the heading rule is tried before the footer rule
ClassifyBlockHeadingFirst(block, base) ==
  LET text == Strip(block.text)
  IN  IF IsHeading(block, base) THEN "heading"
      ELSE IF IsPageNumber(text) THEN "footer"
      ELSE IF IsQuote(text) THEN "quote"
      ELSE IF IsListItem(text) THEN "list_item"
      ELSE "paragraph"

ClassifyBlock(block, base) ==
  LET text == Strip(block.text)
  IN  IF IsPageNumber(text) THEN "footer"
      ELSE IF IsHeading(block, base) THEN "heading"
      ELSE IF IsQuote(text) THEN "quote"
      ELSE IF IsListItem(text) THEN "list_item"
      ELSE "paragraph"

\* mutant: the first threshold is strict
GetHeadingLevelStrict(block, base) ==
  IF block.font_size * 10 > 20 * base THEN 1
  ELSE IF block.font_size * 10 >= 15 * base THEN 2
  ELSE IF block.font_size * 10 >= 13 * base THEN 3
  ELSE IF block.font_size * 10 >= 12 * base \/ block.is_bold THEN 4
  ELSE 5

\* size_ratio = font_size / base_font_size against 2.0, 1.5, 1.3, 1.2
GetHeadingLevel(block, base) ==
  IF block.font_size * 10 >= 20 * base THEN 1
  ELSE IF block.font_size * 10 >= 15 * base THEN 2
  ELSE IF block.font_size * 10 >= 13 * base THEN 3
  ELSE IF block.font_size * 10 >= 12 * base \/ block.is_bold THEN 4
  ELSE 5

(***************************************************************************)
(* max(set(xs), key=xs.count): the first element, in the iteration order   *)
(* of the set, among those that occur most often in xs.                    *)
(*                                                                         *)
(* Numbers: CPython builds set(xs) by inserting xs in order into a table   *)
(* of 8 slots (no resize below 5 elements), at slot hash & 7, and on a     *)
(* collision at (5 * slot + 1 + perturb) & 7 with perturb = hash >> 5,     *)
(* shifted again at each further probe; the hash of an integral number is  *)
(* the number.  The set is iterated by slot.                               *)
(***************************************************************************)
EmptySlot == 0 - 1

RECURSIVE ProbeSlot(_, _, _, _)
ProbeSlot(table, x, slot, perturb) ==
  IF table[slot] = EmptySlot \/ table[slot] = x THEN slot
  ELSE ProbeSlot(table, x, (5 * slot + 1 + (perturb \div 32)) % 8,
                 perturb \div 32)

RECURSIVE SetTable(_, _, _)
SetTable(xs, k, table) ==
  IF k > Len(xs) THEN table
  ELSE SetTable(xs, k + 1,
                [table EXCEPT ![ProbeSlot(table, xs[k], xs[k] % 8, xs[k])] = xs[k]])

\* list(set(xs)) for a list of numbers
NumSetOrder(xs) ==
  LET table == SetTable(xs, 1, [i \in 0..7 |-> EmptySlot])
      used  == {i \in 0..7 : table[i] # EmptySlot}
      RECURSIVE Walk(_)
      Walk(i) == IF i > 7 THEN <<>>
                 ELSE IF i \in used THEN <<table[i]>> \o Walk(i + 1)
                 ELSE Walk(i + 1)
  IN  Walk(0)

Count(xs, x) == Cardinality({i \in 1..Len(xs) : xs[i] = x})

\* max(order, key=xs.count): the first maximal element
FirstMostCommon(order, xs) ==
  order[CHOOSE i \in 1..Len(order) :
          /\ \A j \in 1..Len(order) : Count(xs, order[j]) <= Count(xs, order[i])
          /\ \A j \in 1..(i - 1) : Count(xs, order[j]) < Count(xs, order[i])]

MostCommonNumber(xs) == FirstMostCommon(NumSetOrder(xs), xs)

(***************************************************************************)
(* Strings: the hash of a str is salted per process (PYTHONHASHSEED), so   *)
(* the iteration order of a set of font names is fixed within one process  *)
(* and differs between processes.  A seed stands for one process; the two  *)
(* seeds iterate the font names in opposite orders.                        *)
(***************************************************************************)
Times       == <<"T", "i", "m", "e", "s">>
TimesBold   == <<"T", "i", "m", "e", "s", "-", "B", "o", "l", "d">>
TimesItalic == <<"T", "i", "m", "e", "s", "-", "I", "t", "a", "l", "i", "c">>

FontNames == <<Times, TimesBold, TimesItalic>>

HashSeeds == {0, 1}

NameRank(name, seed) ==
  LET r == CHOOSE i \in 1..Len(FontNames) : FontNames[i] = name
  IN  IF seed = 0 THEN r ELSE Len(FontNames) + 1 - r

\* list(set(xs)) for a list of font names, in the process of the seed
RECURSIVE NameSetOrder(_, _)
NameSetOrder(names, seed) ==
  IF names = {} THEN <<>>
  ELSE LET n == CHOOSE a \in names :
                  \A b \in names : NameRank(a, seed) <= NameRank(b, seed)
       IN  <<n>> \o NameSetOrder(names \ {n}, seed)

MostCommonName(xs, seed) ==
  FirstMostCommon(NameSetOrder({xs[i] : i \in 1..Len(xs)}, seed), xs)

(***************************************************************************)
(* _extract_page_blocks.  A page is a sequence of blocks [type, lines], a  *)
(* line a sequence of spans [text, font, size, flags].  The bounding box   *)
(* is copied into the TextBlock and read by nothing; it is left out.       *)
(***************************************************************************)
\* sub in text
Contains(t, sub) == \E i \in 1..(Len(t) + 1) : MatchesAt(t, i, Lit(sub))

Sum(xs) ==
  LET RECURSIVE S(_)
      S(k) == IF k = 0 THEN 0 ELSE xs[k] + S(k - 1)
  IN  S(Len(xs))

\* the spans of a line whose stripped text is not empty
RECURSIVE KeptSpans(_)
KeptSpans(spans) ==
  IF spans = <<>> THEN <<>>
  ELSE (IF Strip(Head(spans).text) # <<>> THEN <<Head(spans)>> ELSE <<>>)
       \o KeptSpans(Tail(spans))

\* line_text after the loop: each stripped text followed by one space
RECURSIVE JoinSpans(_)
JoinSpans(spans) ==
  IF spans = <<>> THEN <<>>
  ELSE Strip(Head(spans).text) \o <<" ">> \o JoinSpans(Tail(spans))

\* the TextBlock of one line; block_type is the dataclass default
LineBlock(line, page_num, seed) ==
  LET kept       == KeptSpans(line)
      line_fonts == [i \in 1..Len(kept) |-> kept[i].font]
      line_sizes == [i \in 1..Len(kept) |-> kept[i].size]
      line_flags == [i \in 1..Len(kept) |-> kept[i].flags]
      font_name  == MostCommonName(line_fonts, seed)
      \* avg_flags >= 16, and int(avg_flags)
      bold_flag  == Sum(line_flags) >= 16 * Len(line_flags)
      int_avg    == Sum(line_flags) \div Len(line_flags)
  IN  [text       |-> Strip(JoinSpans(kept)),
       font_name  |-> font_name,
       font_size  |-> MostCommonNumber(line_sizes),
       is_bold    |-> bold_flag \/ Contains(LowerText(font_name), <<"b", "o", "l", "d">>),
       is_italic  |-> ((int_avg \div 2) % 2 = 1)
                      \/ Contains(LowerText(font_name), <<"i", "t", "a", "l", "i", "c">>),
       page_num   |-> page_num,
       block_type |-> "paragraph"]

RECURSIVE LinesBlocks(_, _, _)
LinesBlocks(lines, page_num, seed) ==
  IF lines = <<>> THEN <<>>
  ELSE (IF Strip(JoinSpans(KeptSpans(Head(lines)))) = <<>> THEN <<>>
        ELSE <<LineBlock(Head(lines), page_num, seed)>>)
       \o LinesBlocks(Tail(lines), page_num, seed)

RECURSIVE ExtractPageBlocks(_, _, _)
ExtractPageBlocks(page, page_num, seed) ==
  IF page = <<>> THEN <<>>
  ELSE (IF Head(page).type # 0 THEN <<>>
        ELSE LinesBlocks(Head(page).lines, page_num, seed))
       \o ExtractPageBlocks(Tail(page), page_num, seed)

(***************************************************************************)
(* _detect_book_title and _generate_html.  HTML is a sequence of tokens:   *)
(* a character of text, an entity of html.escape, or one piece of markup   *)
(* ("<ul>", "<li>", ...); the parts are joined with the token "\n".        *)
(***************************************************************************)
\* html.escape(text), quote=True
EscapeChar(c) ==
  CASE c = "&" -> "&amp;"
    [] c = "<" -> "&lt;"
    [] c = ">" -> "&gt;"
    [] c = DQ  -> "&quot;"
    [] c = "'" -> "&#x27;"
    [] OTHER   -> c

Escape(t) == [i \in 1..Len(t) |-> EscapeChar(t[i])]

DigitSeq == <<"0", "1", "2", "3", "4", "5", "6", "7", "8", "9">>

\* str(n) of a number below 100
Str(n) ==
  IF n < 10 THEN <<DigitSeq[n + 1]>>
  ELSE <<DigitSeq[(n \div 10) + 1], DigitSeq[(n % 10) + 1]>>

\* mutant: every block of the first chapter is searched
DetectBookTitleAnyBlock(content, base) ==
  IF content.metadata.title # <<>> THEN content.metadata.title
  ELSE IF content.chapters # <<>>
            /\ content.chapters[1].title # <<>>
            /\ content.chapters[1].title # Inicio
    THEN content.chapters[1].title
  ELSE LET blocks == IF content.chapters = <<>> THEN <<>>
                     ELSE content.chapters[1].blocks
           hits   == {i \in 1..Len(blocks) :
                        /\ blocks[i].block_type = "heading"
                        /\ blocks[i].font_size * 10 >= base * 15}
       IN  IF hits # {}
             THEN blocks[CHOOSE i \in hits : \A j \in hits : i <= j].text
             ELSE LivroSemTitulo

\* content.chapters[0].blocks[:5], the first heading at >= 1.5 x base
DetectBookTitle(content, base) ==
  IF content.metadata.title # <<>> THEN content.metadata.title
  ELSE IF content.chapters # <<>>
            /\ content.chapters[1].title # <<>>
            /\ content.chapters[1].title # Inicio
    THEN content.chapters[1].title
  ELSE LET blocks == IF content.chapters = <<>> THEN <<>>
                     ELSE content.chapters[1].blocks
           hits   == {i \in 1..Len(blocks) :
                        /\ i <= 5
                        /\ blocks[i].block_type = "heading"
                        /\ blocks[i].font_size * 10 >= base * 15}
       IN  IF hits # {}
             THEN blocks[CHOOSE i \in hits : \A j \in hits : i <= j].text
             ELSE LivroSemTitulo

\* the text of a block, escaped and wrapped by its bold/italic flags
StyledText(block) ==
  LET text == Escape(block.text)
  IN  IF block.is_bold /\ ~block.is_italic
        THEN <<"<strong>">> \o text \o <<"</strong>">>
      ELSE IF block.is_italic /\ ~block.is_bold
        THEN <<"<em>">> \o text \o <<"</em>">>
      ELSE IF block.is_bold /\ block.is_italic
        THEN <<"<strong>", "<em>">> \o text \o <<"</em>", "</strong>">>
      ELSE text

\* re.sub(r'^\s*[\•\-\*\◦\▪\d]+[\.\)]*\s*', '', text)
CleanText(text) ==
  LET a == SkipClass(text, 1, Space)
      b == SkipClass(text, a, BulletGlyphs \cup Digits)
      c == SkipClass(text, b, {".", ")"})
      d == SkipClass(text, c, Space)
  IN  IF b > a THEN SubSeq(text, d, Len(text)) ELSE text

HeadingPart(level, text) ==
  <<"<h">> \o Str(level) \o <<">">> \o text \o <<"</h">> \o Str(level) \o <<">">>

\* the parts of the blocks of one chapter from block k on; in_list is
\* current_list = "ul"
RECURSIVE BlockParts(_, _, _, _)
BlockParts(blocks, k, in_list, base) ==
  IF k > Len(blocks)
    THEN IF in_list THEN << <<"</ul>">> >> ELSE <<>>
  ELSE LET block   == blocks[k]
           text    == StyledText(block)
           closing == IF in_list THEN << <<"</ul>">> >> ELSE <<>>
       IN  IF block.block_type = "heading"
             THEN closing
                  \o << HeadingPart(GetHeadingLevel(block, base), text) >>
                  \o BlockParts(blocks, k + 1, FALSE, base)
           ELSE IF block.block_type = "quote"
             THEN closing
                  \o << <<"<blockquote>">> \o text \o <<"</blockquote>">> >>
                  \o BlockParts(blocks, k + 1, FALSE, base)
           ELSE IF block.block_type = "list_item"
             THEN (IF in_list THEN <<>> ELSE << <<"<ul>">> >>)
                  \o << <<"<li>">> \o CleanText(text) \o <<"</li>">> >>
                  \o BlockParts(blocks, k + 1, TRUE, base)
           ELSE closing
                \o << <<"<p>">> \o text \o <<"</p>">> >>
                \o BlockParts(blocks, k + 1, FALSE, base)

\* mutant: the parts of a chapter without the closing of its lists
ChapterPartsListLeftOpen(chapter, base) ==
  << <<"<section class=\"chapter\" data-page=\"">>
     \o Str(chapter.page_start) \o <<"\">">> >>
  \o SelectSeq(BlockParts(chapter.blocks, 1, FALSE, base),
               LAMBDA part : part # <<"</ul>">>)
  \o << <<"</section>">> >>

ChapterParts(chapter, base) ==
  << <<"<section class=\"chapter\" data-page=\"">>
     \o Str(chapter.page_start) \o <<"\">">> >>
  \o (IF chapter.title # <<>> /\ chapter.title # Inicio
        THEN << <<"<h">> \o Str(chapter.level) \o <<" class=\"chapter-title\">">>
                \o Escape(chapter.title)
                \o <<"</h">> \o Str(chapter.level) \o <<">">> >>
        ELSE <<>>)
  \o BlockParts(chapter.blocks, 1, FALSE, base)
  \o << <<"</section>">> >>

RECURSIVE ChaptersParts(_, _)
ChaptersParts(chapters, base) ==
  IF chapters = <<>> THEN <<>>
  ELSE ChapterParts(Head(chapters), base) \o ChaptersParts(Tail(chapters), base)

HtmlParts(content, base) ==
  << <<"<!DOCTYPE html>">>,
     <<"<html lang=\"pt-BR\">">>,
     <<"<head>">>,
     <<"<meta charset=\"UTF-8\">">>,
     <<"<title>">> \o Escape(content.title) \o <<"</title>">>,
     <<"</head>">>,
     <<"<body>">>,
     <<"<h", "1", " class=\"book-title\">">> \o Escape(content.title)
     \o <<"</h", "1", ">">> >>
  \o (IF content.author # <<>>
        THEN << <<"<p class=\"book-author\">">> \o Escape(content.author)
                \o <<"</p>">> >>
        ELSE <<>>)
  \o ChaptersParts(content.chapters, base)
  \o << <<"</body>">>, <<"</html>">> >>

\* '\n'.join(parts)
RECURSIVE JoinLines(_)
JoinLines(parts) ==
  IF parts = <<>> THEN <<>>
  ELSE IF Len(parts) = 1 THEN Head(parts)
  ELSE Head(parts) \o <<"\n">> \o JoinLines(Tail(parts))

GenerateHtmlText(content, base) == JoinLines(HtmlParts(content, base))

\* sum(len(block.text.split()) for ch in chapters for block in ch.blocks)
RECURSIVE BlocksWords(_)
BlocksWords(blocks) ==
  IF blocks = <<>> THEN 0
  ELSE WordCount(Head(blocks).text) + BlocksWords(Tail(blocks))

RECURSIVE ChaptersWords(_)
ChaptersWords(chapters) ==
  IF chapters = <<>> THEN 0
  ELSE BlocksWords(Head(chapters).blocks) + ChaptersWords(Tail(chapters))

(***************************************************************************)
(* The input texts.                                                        *)
(***************************************************************************)
\* 'Hello world.'
TxtHello == <<"H", "e", "l", "l", "o", " ", "w", "o", "r", "l", "d", ".">>

\* '42'
TxtPageNum == <<"4", "2">>

\* 'CAPÍTULO 1'
TxtCap1 == <<"C", "A", "P", "Iacute", "T", "U", "L", "O", " ", "1">>

\* 'CAPÍTULO 2'
TxtCap2 == <<"C", "A", "P", "Iacute", "T", "U", "L", "O", " ", "2">>

\* '1. Intro'
TxtSection == <<"1", ".", " ", "I", "n", "t", "r", "o">>

\* '• item one'
TxtItemOne == <<"bullet", " ", "i", "t", "e", "m", " ", "o", "n", "e">>

\* '• item two'
TxtItemTwo == <<"bullet", " ", "i", "t", "e", "m", " ", "t", "w", "o">>

\* '• item three'
TxtItemThree ==
  <<"bullet", " ", "i", "t", "e", "m", " ", "t", "h", "r", "e", "e">>

\* '“A citação.”'
TxtCitacao ==
  <<"ldquo", "A", " ", "c", "i", "t", "a", "ccedil", "atilde", "o", ".",
    "rdquo">>

\* '"Dito."'
TxtDito == <<DQ, "D", "i", "t", "o", ".", DQ>>

\* '— Fala.'
TxtFala == <<"emdash", " ", "F", "a", "l", "a", ".">>

\* 'a) item'
TxtAlpha == <<"a", ")", " ", "i", "t", "e", "m">>

\* 'iv) item'
TxtRoman == <<"i", "v", ")", " ", "i", "t", "e", "m">>

\* '1) item'
TxtNumbered == <<"1", ")", " ", "i", "t", "e", "m">>

\* 'Página 3'
TxtPagina == <<"P", "aacute", "g", "i", "n", "a", " ", "3">>

\* '3 de 10'
TxtOf == <<"3", " ", "d", "e", " ", "1", "0">>

\* 'A'
TxtLetter == <<"A">>

\* ' '
TxtBlank == <<" ">>

\* 'A & B'
TxtAmp == <<"A", " ", "&", " ", "B">>

\* 'Meu livro', 'Ana'
TxtMeuLivro == <<"M", "e", "u", " ", "l", "i", "v", "r", "o">>
TxtAna == <<"A", "n", "a">>

(***************************************************************************)
(* Spans, lines and documents.  Span flags: 2 = italic, 16 = bold.         *)
(***************************************************************************)
Span(text, font, size, flags) ==
  [text |-> text, font |-> font, size |-> size, flags |-> flags]

\* a line of one span in the regular face
Plain(text, size) == <<Span(text, Times, size, 0)>>

\* a page: an image block, then one text block that holds the lines
Page(lines) ==
  << [type |-> 1, lines |-> <<>>], [type |-> 0, lines |-> lines] >>

\* the lines laid out per lines on a page, on at least one page
RECURSIVE Paginate(_, _)
Paginate(lines, per) ==
  IF Len(lines) <= per THEN <<Page(lines)>>
  ELSE <<Page(SubSeq(lines, 1, per))>>
       \o Paginate(SubSeq(lines, per + 1, Len(lines)), per)

SeqsUpTo(S, n) == UNION {[1..k -> S] : k \in 0..n}

NoMeta  == [title |-> <<>>, author |-> <<>>]
FullMeta == [title |-> TxtMeuLivro, author |-> TxtAna]

(***************************************************************************)
(* The state: one PDFExtractor and one call of extract.                    *)
(***************************************************************************)
VARIABLES
  doc,              \* the pages of the open document
  meta,             \* doc.metadata
  hashseed,         \* the str hash salt of the process
  base_font_size,   \* self.base_font_size
  page_margins,     \* self.page_margins
  pc,               \* the position of extract
  page_num,         \* the loop variable of the first pass
  all_blocks,
  font_sizes,
  chapters,         \* the three locals of _organize_chapters
  current_chapter,
  next_block,
  content,          \* the BookContent
  raw_html,
  returned,         \* what extract gave back to its caller
  prev,             \* the result of the run before this one, if any
  other,            \* the extraction of a concurrent caller, when it does not run
  app               \* the database tables, the temporary file, the requests
                    \* being served and the background tasks of the routes

vars == <<doc, meta, hashseed, base_font_size, page_margins, pc, page_num,
          all_blocks, font_sizes, chapters, current_chapter, next_block,
          content, raw_html, returned, prev, other, app>>

NoRun == [run |-> FALSE]

\* a project whose PDF was uploaded, before any background task is added
NoTask ==
  [project   |-> [status |-> "uploaded", error_message |-> ""],
   pdf_path  |-> FALSE,    \* os.path.exists(pdf_path)
   task      |-> "none",   \* the position of process_pdf_pipeline
   extracted |-> NoRun,    \* content_json, raw_html
   structure |-> "none",   \* the row of book_structures
   titled    |-> FALSE,    \* normalized_json.get("title")
   written   |-> <<>>,     \* the statuses the task has written
   raised    |-> "",       \* the exception that is propagating
   renditions |-> <<>>,    \* the rows of the table renditions, by id
   requests  |-> <<>>,     \* the requests being served, with their locals
   tasks     |-> <<>>]     \* the generate_pdf_task calls added so far

Margins == [top |-> 72, bottom |-> 72, left |-> 72, right |-> 72]

EmptyContent ==
  [title |-> <<>>, author |-> <<>>, chapters |-> <<>>, metadata |-> NoMeta,
   total_pages |-> 0, word_count |-> 0]

Chapter(title, level, page_start) ==
  [title |-> title, level |-> level, blocks |-> <<>>, page_start |-> page_start]

LeadingChapter == Chapter(Inicio, 1, 0)

\* PDFExtractor() and the locals of a call that has not started
Fresh ==
  /\ base_font_size = DefaultBaseFontSize
  /\ page_margins = Margins
  /\ pc = "start"
  /\ page_num = 0
  /\ all_blocks = <<>>
  /\ font_sizes = <<>>
  /\ chapters = <<>>
  /\ current_chapter = LeadingChapter
  /\ next_block = 1
  /\ content = EmptyContent
  /\ raw_html = <<>>
  /\ returned = "nothing"

InitOf(docs, metas, seeds) ==
  /\ doc \in docs
  /\ meta \in metas
  /\ hashseed \in seeds
  /\ prev = NoRun
  /\ other = NoRun
  /\ app = NoTask
  /\ Fresh

\* _extract_metadata; the five other fields are copied and never read
ExtractMetadata(m) == [title |-> m.title, author |-> m.author]

\* doc = fitz.open(pdf_path); content = BookContent(...)
Open ==
  /\ pc = "start"
  /\ content' = [EmptyContent EXCEPT !.total_pages = Len(doc),
                                     !.metadata = ExtractMetadata(meta)]
  /\ all_blocks' = <<>>
  /\ font_sizes' = <<>>
  /\ page_num' = 0
  /\ pc' = "pages"
  /\ UNCHANGED <<doc, meta, hashseed, base_font_size, page_margins, chapters,
                 current_chapter, next_block, raw_html, returned, prev, other, app>>

\* mutant: the size of every block is collected, zero included
EverySize(blocks) == [k \in 1..Len(blocks) |-> blocks[k].font_size]

PositiveSizes(blocks) ==
  LET RECURSIVE P(_)
      P(k) == IF k > Len(blocks) THEN <<>>
              ELSE (IF blocks[k].font_size > 0 THEN <<blocks[k].font_size>>
                    ELSE <<>>) \o P(k + 1)
  IN  P(1)

\* one iteration of: for page_num in range(len(doc))
ExtractPage ==
  /\ pc = "pages"
  /\ page_num < Len(doc)
  /\ LET blocks == ExtractPageBlocks(doc[page_num + 1], page_num, hashseed)
     IN  /\ all_blocks' = all_blocks \o blocks
         /\ font_sizes' = font_sizes \o PositiveSizes(blocks)
  /\ page_num' = page_num + 1
  /\ UNCHANGED <<doc, meta, hashseed, base_font_size, page_margins, pc,
                 chapters, current_chapter, next_block, content, raw_html,
                 returned, prev, other, app>>

\* if font_sizes: self.base_font_size = max(set(font_sizes), key=...)
ComputeBase ==
  /\ pc = "pages"
  /\ page_num >= Len(doc)
  /\ base_font_size' = IF font_sizes # <<>> THEN MostCommonNumber(font_sizes)
                       ELSE base_font_size
  /\ pc' = "classify"
  /\ UNCHANGED <<doc, meta, hashseed, page_margins, page_num, all_blocks,
                 font_sizes, chapters, current_chapter, next_block, content,
                 raw_html, returned, prev, other, app>>

\* for block in all_blocks: block.block_type = self._classify_block(block)
ClassifyBlocks ==
  /\ pc = "classify"
  /\ all_blocks' = [i \in 1..Len(all_blocks) |->
                      [all_blocks[i] EXCEPT
                         !.block_type = ClassifyBlock(all_blocks[i], base_font_size)]]
  /\ pc' = "enter_organize"
  /\ UNCHANGED <<doc, meta, hashseed, base_font_size, page_margins, page_num,
                 font_sizes, chapters, current_chapter, next_block, content,
                 raw_html, returned, prev, other, app>>

\* _organize_chapters: chapters = []; current_chapter = Chapter("Início", ...)
EnterOrganize ==
  /\ pc = "enter_organize"
  /\ chapters' = <<>>
  /\ current_chapter' = LeadingChapter
  /\ next_block' = 1
  /\ pc' = "organize"
  /\ UNCHANGED <<doc, meta, hashseed, base_font_size, page_margins, page_num,
                 all_blocks, font_sizes, content, raw_html, returned, prev, other, app>>

InLoop == pc = "organize" /\ next_block <= Len(all_blocks)

\* mutant: a heading of level 2 opens a chapter too
OpensChapterAtLevel2(block, current, base) ==
  /\ block.block_type = "heading"
  /\ GetHeadingLevel(block, base) <= 2
  /\ current.blocks # <<>>

\* mutant: a level-1 heading opens a chapter after an empty chapter too
OpensChapterAfterEmpty(block, current, base) ==
  /\ block.block_type = "heading"
  /\ GetHeadingLevel(block, base) = 1

\* mutant: a level-1 heading opens a chapter only after an empty chapter
OpensChapterOnlyAfterEmpty(block, current, base) ==
  /\ block.block_type = "heading"
  /\ GetHeadingLevel(block, base) = 1
  /\ current.blocks = <<>>

\* the condition of the branch that opens a chapter
OpensChapter(block, current, base) ==
  /\ block.block_type = "heading"
  /\ GetHeadingLevel(block, base) = 1
  /\ current.blocks # <<>>

\* mutant: a footer is stored like any other block
SkipFooterStoresBlock ==
  /\ InLoop
  /\ all_blocks[next_block].block_type = "footer"
  /\ current_chapter' =
       [current_chapter EXCEPT !.blocks = Append(@, all_blocks[next_block])]
  /\ next_block' = next_block + 1
  /\ UNCHANGED <<doc, meta, hashseed, base_font_size, page_margins, pc,
                 page_num, all_blocks, font_sizes, chapters, content,
                 raw_html, returned, prev, other, app>>

\* if block.block_type == "footer": continue
SkipFooter ==
  /\ InLoop
  /\ all_blocks[next_block].block_type = "footer"
  /\ next_block' = next_block + 1
  /\ UNCHANGED <<doc, meta, hashseed, base_font_size, page_margins, pc,
                 page_num, all_blocks, font_sizes, chapters, current_chapter,
                 content, raw_html, returned, prev, other, app>>

\* mutant: the new chapter starts with the blocks of the one it follows
OpenChapterKeepingBlocks ==
  /\ InLoop
  /\ all_blocks[next_block].block_type # "footer"
  /\ OpensChapter(all_blocks[next_block], current_chapter, base_font_size)
  /\ chapters' = Append(chapters, current_chapter)
  /\ current_chapter' =
       [current_chapter EXCEPT
          !.title = all_blocks[next_block].text,
          !.level = GetHeadingLevel(all_blocks[next_block], base_font_size),
          !.page_start = all_blocks[next_block].page_num]
  /\ next_block' = next_block + 1
  /\ UNCHANGED <<doc, meta, hashseed, base_font_size, page_margins, pc,
                 page_num, all_blocks, font_sizes, content, raw_html,
                 returned, prev, other, app>>

\* chapters.append(current_chapter); current_chapter = Chapter(...)
OpenChapter ==
  /\ InLoop
  /\ all_blocks[next_block].block_type # "footer"
  /\ OpensChapter(all_blocks[next_block], current_chapter, base_font_size)
  /\ chapters' = Append(chapters, current_chapter)
  /\ current_chapter' =
       Chapter(all_blocks[next_block].text,
               GetHeadingLevel(all_blocks[next_block], base_font_size),
               all_blocks[next_block].page_num)
  /\ next_block' = next_block + 1
  /\ UNCHANGED <<doc, meta, hashseed, base_font_size, page_margins, pc,
                 page_num, all_blocks, font_sizes, content, raw_html,
                 returned, prev, other, app>>

\* mutant: the block goes in front of the blocks of the chapter
AppendBlockInFront ==
  /\ InLoop
  /\ all_blocks[next_block].block_type # "footer"
  /\ ~OpensChapter(all_blocks[next_block], current_chapter, base_font_size)
  /\ current_chapter' =
       [current_chapter EXCEPT !.blocks = <<all_blocks[next_block]>> \o @]
  /\ next_block' = next_block + 1
  /\ UNCHANGED <<doc, meta, hashseed, base_font_size, page_margins, pc,
                 page_num, all_blocks, font_sizes, chapters, content,
                 raw_html, returned, prev, other, app>>

\* current_chapter.blocks.append(block), in either else branch
AppendBlock ==
  /\ InLoop
  /\ all_blocks[next_block].block_type # "footer"
  /\ ~OpensChapter(all_blocks[next_block], current_chapter, base_font_size)
  /\ current_chapter' =
       [current_chapter EXCEPT !.blocks = Append(@, all_blocks[next_block])]
  /\ next_block' = next_block + 1
  /\ UNCHANGED <<doc, meta, hashseed, base_font_size, page_margins, pc,
                 page_num, all_blocks, font_sizes, chapters, content,
                 raw_html, returned, prev, other, app>>

\* mutant: the last chapter is appended although it holds no block
FinalChaptersAlways(chs, current) == Append(chs, current)

\* if current_chapter.blocks: chapters.append(current_chapter)
FinalChapters(chs, current) ==
  IF current.blocks # <<>> THEN Append(chs, current) ELSE chs

\* the end of _organize_chapters; content.chapters = its result
LeaveOrganize ==
  /\ pc = "organize"
  /\ next_block > Len(all_blocks)
  /\ chapters' = FinalChapters(chapters, current_chapter)
  /\ content' = [content EXCEPT !.chapters = chapters']
  /\ pc' = "title"
  /\ UNCHANGED <<doc, meta, hashseed, base_font_size, page_margins, page_num,
                 all_blocks, font_sizes, current_chapter, next_block,
                 raw_html, returned, prev, other, app>>

\* content.title = ...; content.author = content.metadata.get("author", "")
DetectTitle ==
  /\ pc = "title"
  /\ content' = [content EXCEPT !.title = DetectBookTitle(content, base_font_size),
                                !.author = content.metadata.author]
  /\ pc' = "count"
  /\ UNCHANGED <<doc, meta, hashseed, base_font_size, page_margins, page_num,
                 all_blocks, font_sizes, chapters, current_chapter,
                 next_block, raw_html, returned, prev, other, app>>

\* mutant: every line of the document is counted
CountedWordsOfAllLines(c) == BlocksWords(all_blocks)

\* content.word_count = sum(...)
CountedWords(c) == ChaptersWords(c.chapters)

CountWords ==
  /\ pc = "count"
  /\ content' = [content EXCEPT !.word_count = CountedWords(content)]
  /\ pc' = "html"
  /\ UNCHANGED <<doc, meta, hashseed, base_font_size, page_margins, page_num,
                 all_blocks, font_sizes, chapters, current_chapter,
                 next_block, raw_html, returned, prev, other, app>>

\* mutant: the HTML is written with the baseline of __init__
GenerateHtmlDefaultBase ==
  /\ pc = "html"
  /\ raw_html' = GenerateHtmlText(content, DefaultBaseFontSize)
  /\ returned' = "content"
  /\ pc' = "done"
  /\ UNCHANGED <<doc, meta, hashseed, base_font_size, page_margins, page_num,
                 all_blocks, font_sizes, chapters, current_chapter,
                 next_block, content, prev, other, app>>

\* raw_html = self._generate_html(content); return content, raw_html
GenerateHtml ==
  /\ pc = "html"
  /\ raw_html' = GenerateHtmlText(content, base_font_size)
  /\ returned' = "content"
  /\ pc' = "done"
  /\ UNCHANGED <<doc, meta, hashseed, base_font_size, page_margins, page_num,
                 all_blocks, font_sizes, chapters, current_chapter,
                 next_block, content, prev, other, app>>

Next ==
  \/ Open
  \/ ExtractPage
  \/ ComputeBase
  \/ ClassifyBlocks
  \/ EnterOrganize
  \/ SkipFooter
  \/ OpenChapter
  \/ AppendBlock
  \/ LeaveOrganize
  \/ DetectTitle
  \/ CountWords
  \/ GenerateHtml

(***************************************************************************)
(* Specification Spec: one call of extract_pdf on a document of at most    *)
(* MaxLines lines of one span each, LinesPerPage lines to a page.          *)
(***************************************************************************)
MaxLines == 4

LinesPerPage == 2

LnHello      == Plain(TxtHello, 10)
LnPageNum    == Plain(TxtPageNum, 10)
LnPageNumBig == <<Span(TxtPageNum, TimesBold, 20, 16)>>
LnCap1       == Plain(TxtCap1, 20)
LnCap2       == Plain(TxtCap2, 20)
LnSection    == Plain(TxtSection, 15)

Lines == {LnHello, LnPageNum, LnPageNumBig, LnCap1, LnCap2, LnSection}

Docs == {Paginate(ls, LinesPerPage) : ls \in SeqsUpTo(Lines, MaxLines)}

Init == InitOf(Docs, {NoMeta, FullMeta}, {0})

Spec == Init /\ [][Next]_vars

(***************************************************************************)
(* What the properties read.                                               *)
(***************************************************************************)
\* extract has returned content, raw_html to its caller
Returned == returned = "content"

\* the blocks carry the types of _classify_block
Classified == pc \notin {"start", "pages", "classify"}

RECURSIVE NonFooter(_)
NonFooter(blocks) ==
  IF blocks = <<>> THEN <<>>
  ELSE (IF Head(blocks).block_type = "footer" THEN <<>> ELSE <<Head(blocks)>>)
       \o NonFooter(Tail(blocks))

\* the block lists of the chapters, one after the other
RECURSIVE StoredBlocks(_)
StoredBlocks(chs) ==
  IF chs = <<>> THEN <<>>
  ELSE Head(chs).blocks \o StoredBlocks(Tail(chs))

\* block i of the document is a heading of level 1
IsLevel1(b) == b.block_type = "heading" /\ b.font_size >= 2 * base_font_size

\* every chapter the call holds: finished, current and returned
HeldChapters ==
  {chapters[i] : i \in 1..Len(chapters)} \cup {current_chapter}
  \cup {content.chapters[i] : i \in 1..Len(content.chapters)}

(***************************************************************************)
(* C1: the word_count of the returned BookContent is the sum, over exactly *)
(* the blocks in the block lists of the returned chapters, of the number   *)
(* of whitespace-delimited tokens of the block; footers and lines stored   *)
(* in no block list add nothing.                                           *)
(***************************************************************************)
C1_WordCountOverStoredBlocks ==
  Returned =>
    LET stored == StoredBlocks(content.chapters)
    IN  content.word_count =
          Sum([i \in 1..Len(stored) |-> WordCount(stored[i].text)])

\* a footer and a heading that became a title were left out of a count > 0
C1_Witness ==
  /\ Returned
  /\ content.word_count > 0
  /\ \E i \in 1..Len(all_blocks) : all_blocks[i].block_type = "footer"
  /\ Len(content.chapters) = 2
  /\ content.word_count < BlocksWords(all_blocks)

(***************************************************************************)
(* C2: every returned BookContent has at least one chapter, also for a     *)
(* document with no line and for a document whose lines are all footers.   *)
(***************************************************************************)
C2_AtLeastOneChapter == Returned => Len(content.chapters) >= 1

\* C2 as amended: at least one chapter exactly when some line is not a
\* footer; with no line, or footers only, the chapter list is empty
C2_ChapterIffNonFooterLine ==
  Returned =>
    (Len(content.chapters) >= 1
       <=> \E i \in 1..Len(all_blocks) : all_blocks[i].block_type # "footer")

C2_Witness ==
  /\ Returned
  /\ all_blocks # <<>>
  /\ \A i \in 1..Len(all_blocks) : all_blocks[i].block_type = "footer"
  /\ content.chapters = <<>>

(***************************************************************************)
(* C3: no block of type footer is in the block list of any chapter; a line *)
(* whose text is "42" is a footer at any font size and boldness, is stored *)
(* in no chapter and is not counted in word_count.                         *)
(***************************************************************************)
C3_FootersAreDropped ==
  /\ \A ch \in HeldChapters :
       \A i \in 1..Len(ch.blocks) :
         /\ ch.blocks[i].block_type # "footer"
         /\ ch.blocks[i].text # TxtPageNum
  /\ Classified =>
       \A i \in 1..Len(all_blocks) :
         all_blocks[i].text = TxtPageNum => all_blocks[i].block_type = "footer"
  /\ Returned =>
       /\ \A i \in 1..Len(content.chapters) :
            content.chapters[i].title # TxtPageNum
       /\ content.word_count <= BlocksWords(NonFooter(all_blocks))

\* "42" in bold at twice the baseline was dropped from a document with text
C3_Witness ==
  /\ Returned
  /\ \E i \in 1..Len(all_blocks) :
       /\ all_blocks[i].text = TxtPageNum
       /\ all_blocks[i].is_bold
       /\ all_blocks[i].font_size >= 2 * base_font_size
  /\ content.word_count > 0

(***************************************************************************)
(* C4: when no line is a heading of level 1, the result is exactly one     *)
(* chapter, the leading one (title "Início", level 1, page_start 0), whose *)
(* block list is the non-footer lines in document order; the single line   *)
(* "Hello world." gives one paragraph block and word_count 2.              *)
(***************************************************************************)
NoLevel1 == \A i \in 1..Len(all_blocks) : ~IsLevel1(all_blocks[i])

OnlyLeadingChapter ==
  content.chapters =
    <<[LeadingChapter EXCEPT !.blocks = NonFooter(all_blocks)]>>

C4_OneChapterWithoutLevel1 ==
  (Returned /\ NoLevel1) => OnlyLeadingChapter

\* C4 as amended: ... and some line is not a footer; with no line that is
\* not a footer the chapter list is empty
C4_OneChapterWithoutLevel1IfAnyBlock ==
  /\ (Returned /\ NoLevel1 /\ NonFooter(all_blocks) # <<>>) => OnlyLeadingChapter
  /\ (Returned /\ NonFooter(all_blocks) = <<>>) => content.chapters = <<>>
  /\ (Returned /\ doc = Paginate(<<LnHello>>, LinesPerPage)) =>
       /\ Len(content.chapters) = 1
       /\ Len(content.chapters[1].blocks) = 1
       /\ content.chapters[1].blocks[1].block_type = "paragraph"
       /\ content.word_count = 2

\* two blocks around a footer and a sub-heading, all in the leading chapter
C4_Witness ==
  /\ Returned
  /\ NoLevel1
  /\ Len(content.chapters) = 1
  /\ Len(content.chapters[1].blocks) >= 2
  /\ \E i \in 1..Len(all_blocks) : all_blocks[i].block_type = "heading"
  /\ \E i \in 1..Len(all_blocks) : all_blocks[i].block_type = "footer"

(***************************************************************************)
(* C5: when the non-footer lines are n >= 1 groups of one level-1 heading  *)
(* (font size twice the baseline) followed by one paragraph, there are     *)
(* exactly n chapters, chapter i has the text of heading i as its title    *)
(* and its block list is exactly its paragraph.                            *)
(***************************************************************************)
HeadingParagraphGroups(nf) ==
  /\ Len(nf) >= 2
  /\ Len(nf) % 2 = 0
  /\ \A k \in 1..(Len(nf) \div 2) :
       /\ nf[2 * k - 1].block_type = "heading"
       /\ nf[2 * k - 1].font_size = 2 * base_font_size
       /\ nf[2 * k].block_type = "paragraph"

C5_OneChapterPerGroup ==
  LET nf == NonFooter(all_blocks)
  IN  (Returned /\ HeadingParagraphGroups(nf)) =>
        /\ Len(content.chapters) = Len(nf) \div 2
        /\ \A k \in 1..(Len(nf) \div 2) :
             /\ k <= Len(content.chapters)
             /\ content.chapters[k].title = nf[2 * k - 1].text
             /\ content.chapters[k].blocks = <<nf[2 * k]>>

(***************************************************************************)
(* C6: when no page yields a line with text, extract reports a "no         *)
(* extractable content" failure and returns no BookContent.                *)
(***************************************************************************)
C6_NoContentIsAFailure ==
  (pc = "done" /\ all_blocks = <<>>) => returned = "no_extractable_content"

(***************************************************************************)
(* Specification SpecClassify: one call of extract_pdf on a document whose *)
(* first three lines fix the baseline and whose last lines are drawn from  *)
(* every text, size 0..MaxSize and face, so that each rule of              *)
(* _classify_block and each threshold of _get_heading_level is met alone   *)
(* and together with the others.                                           *)
(***************************************************************************)
MaxSize == 20

\* the faces of a span: its font and its flags
Faces == {<<Times, 0>>, <<TimesBold, 16>>, <<TimesItalic, 2>>, <<Times, 18>>}

ClassifyTexts ==
  {TxtHello, TxtPageNum, TxtCap1, TxtSection, TxtItemOne, TxtCitacao, TxtDito,
   TxtFala, TxtAlpha, TxtRoman, TxtNumbered, TxtPagina, TxtOf, TxtLetter,
   TxtBlank, TxtAmp}

\* the sizes of the lines that fix the baseline
ContextSizes == {5, 10}

AnyLines ==
  {<<Span(t, f[1], s, f[2])>> : t \in ClassifyTexts, s \in 0..MaxSize, f \in Faces}

\* lines that the chapter pattern makes headings at every size
HeadingLines ==
  {<<Span(TxtSection, f[1], s, f[2])>> : s \in 0..MaxSize,
                                      f \in {<<Times, 0>>, <<TimesBold, 16>>}}

ContextLines(b) == <<Plain(TxtHello, b), Plain(TxtHello, b), Plain(TxtHello, b)>>

ClassifyDocs ==
  {Paginate(ContextLines(b) \o <<x>>, LinesPerPage) :
     b \in ContextSizes, x \in AnyLines}
  \cup
  {Paginate(ContextLines(10) \o <<x, y>>, LinesPerPage) :
     x \in HeadingLines, y \in HeadingLines}

InitClassify == InitOf(ClassifyDocs, {NoMeta}, {0})

SpecClassify == InitClassify /\ [][Next]_vars

(***************************************************************************)
(* C8: _classify_block gives every line exactly one of the five types, the *)
(* type of the first rule that matches in the order footer, heading,       *)
(* quote, list item, paragraph: a line that matches the footer rule is a   *)
(* footer whatever its size and face, a line that matches the heading      *)
(* rule and not the footer rule is a heading whatever its first            *)
(* character, and a line that matches no rule is a paragraph.              *)
(***************************************************************************)
C8_FirstMatchWins ==
  Classified =>
    \A i \in 1..Len(all_blocks) :
      LET b       == all_blocks[i]
          t       == Strip(b.text)
          footer  == IsPageNumber(t)
          heading == IsHeading(b, base_font_size)
          quote   == IsQuote(t)
          item    == IsListItem(t)
      IN  /\ b.block_type \in
               {"footer", "heading", "quote", "list_item", "paragraph"}
          /\ footer => b.block_type = "footer"
          /\ (~footer /\ heading) => b.block_type = "heading"
          /\ (~footer /\ ~heading /\ quote) => b.block_type = "quote"
          /\ (~footer /\ ~heading /\ ~quote /\ item)
               => b.block_type = "list_item"
          /\ (~footer /\ ~heading /\ ~quote /\ ~item)
               => b.block_type = "paragraph"

\* a returned run with a page number in bold at twice the baseline: the
\* heading rule matches it too, and it is a footer
C8_Witness ==
  /\ Returned
  /\ \E i \in 1..Len(all_blocks) :
       /\ IsPageNumber(Strip(all_blocks[i].text))
       /\ IsHeading(all_blocks[i], base_font_size)
       /\ all_blocks[i].is_bold
       /\ all_blocks[i].font_size >= 2 * base_font_size
       /\ all_blocks[i].block_type = "footer"

(***************************************************************************)
(* C9: the level of a heading is 1 when its size is at least 2.0 times the *)
(* baseline, else 2 from 1.5 times, else 3 from 1.3 times, else 4 from 1.2 *)
(* times or when the line is bold, else 5; the level shown in the HTML is  *)
(* that level, it lies in 1..5, and of two headings with the same bold     *)
(* flag the larger one never has the greater level.                        *)
(***************************************************************************)
\* the thresholds on size / base, without the division
ThresholdLevel(size, bold, base) ==
  IF size >= 2 * base THEN 1
  ELSE IF 2 * size >= 3 * base THEN 2
  ELSE IF 10 * size >= 13 * base THEN 3
  ELSE IF 5 * size >= 6 * base \/ bold THEN 4
  ELSE 5

C9_HeadingLevelByThresholds ==
  /\ Classified =>
       \A i \in 1..Len(all_blocks) :
         all_blocks[i].block_type = "heading" =>
           LET b     == all_blocks[i]
               level == GetHeadingLevel(b, base_font_size)
           IN  /\ level \in 1..5
               /\ level = ThresholdLevel(b.font_size, b.is_bold, base_font_size)
               /\ b.font_size >= 2 * base_font_size => level = 1
               /\ (~b.is_bold /\ 5 * b.font_size < 6 * base_font_size)
                    => level = 5
               /\ \A j \in 1..Len(all_blocks) :
                    (/\ all_blocks[j].block_type = "heading"
                     /\ all_blocks[j].is_bold = b.is_bold
                     /\ all_blocks[j].font_size >= b.font_size)
                    => GetHeadingLevel(all_blocks[j], base_font_size) <= level
  /\ Returned =>
       \A k \in 1..Len(content.chapters) :
         \A n \in 1..Len(content.chapters[k].blocks) :
           LET b == content.chapters[k].blocks[n]
           IN  b.block_type = "heading" =>
                 Contains(raw_html,
                          HeadingPart(ThresholdLevel(b.font_size, b.is_bold,
                                                     base_font_size),
                                      StyledText(b)))

\* a returned run with a heading at twice the baseline and a heading at the
\* baseline, neither bold: levels 1 and 5
C9_Witness ==
  /\ Returned
  /\ \E i, j \in 1..Len(all_blocks) :
       /\ all_blocks[i].block_type = "heading"
       /\ all_blocks[j].block_type = "heading"
       /\ ~all_blocks[i].is_bold
       /\ ~all_blocks[j].is_bold
       /\ all_blocks[i].font_size = 2 * base_font_size
       /\ all_blocks[j].font_size = base_font_size
       /\ GetHeadingLevel(all_blocks[i], base_font_size) = 1
       /\ GetHeadingLevel(all_blocks[j], base_font_size) = 5

(***************************************************************************)
(* Specification SpecRuns: extract_pdf is called on a document and then    *)
(* called again on the same document, by the same process or by another    *)
(* one.  The third line of the document has up to MaxSpans spans that      *)
(* differ in font and size, so that fonts and sizes tie within the line    *)
(* and sizes tie within the document.                                      *)
(***************************************************************************)
MaxSpans == 3

\* extract_pdf once more: a new PDFExtractor, the same pages and metadata;
\* the str hash salt is that of the process that runs it
RunAgain ==
  /\ pc = "done"
  /\ ~prev.run
  /\ prev' = [run |-> TRUE, content |-> content, raw_html |-> raw_html]
  /\ hashseed' \in HashSeeds
  /\ base_font_size' = DefaultBaseFontSize
  /\ page_margins' = Margins
  /\ pc' = "start"
  /\ page_num' = 0
  /\ all_blocks' = <<>>
  /\ font_sizes' = <<>>
  /\ chapters' = <<>>
  /\ current_chapter' = LeadingChapter
  /\ next_block' = 1
  /\ content' = EmptyContent
  /\ raw_html' = <<>>
  /\ returned' = "nothing"
  /\ UNCHANGED <<doc, meta, other, app>>

NextRuns ==
  \/ Next
  \/ RunAgain

SpanChoices ==
  {Span(TxtHello, f, s, 0) : f \in {Times, TimesBold}, s \in {10, 20}}

MixedLines == UNION {[1..k -> SpanChoices] : k \in 1..MaxSpans}

RunsDocs ==
  {Paginate(<<LnHello, LnPageNum, x, LnCap1>>, LinesPerPage) : x \in MixedLines}

InitRuns == InitOf(RunsDocs, {NoMeta}, HashSeeds)

SpecRuns == InitRuns /\ [][NextRuns]_vars

(***************************************************************************)
(* C7: two runs of extract on the same pages, spans and metadata return    *)
(* equal BookContent values and the same HTML, whatever ties there are     *)
(* between font sizes in the document or between font names or sizes in a  *)
(* line.                                                                   *)
(***************************************************************************)
C7_TwoRunsAgree ==
  (pc = "done" /\ prev.run) =>
    (prev.content = content /\ prev.raw_html = raw_html)

(***************************************************************************)
(* Specification SpecLists: one call of extract_pdf on a document of at    *)
(* most MaxItems lines drawn from bulleted lines in the regular and the    *)
(* italic face, a paragraph, a page number and a chapter heading.          *)
(***************************************************************************)
MaxItems == 3

LnItemOne       == Plain(TxtItemOne, 10)
LnItemTwoItalic == <<Span(TxtItemTwo, TimesItalic, 10, 2)>>
LnItemThree     == Plain(TxtItemThree, 10)

ListLines ==
  {LnItemOne, LnItemTwoItalic, LnItemThree, LnHello, LnPageNum, LnCap1}

ListDocs == {Paginate(ls, LinesPerPage) : ls \in SeqsUpTo(ListLines, MaxItems)}

InitLists == InitOf(ListDocs, {NoMeta}, {0})

SpecLists == InitLists /\ [][Next]_vars

\* the number of occurrences of a token in a text
CountToken(t, tok) == Cardinality({i \in 1..Len(t) : t[i] = tok})

\* the number of maximal runs of list items among the blocks of a chapter
ListRuns(blocks) ==
  Cardinality({i \in 1..Len(blocks) :
                 /\ blocks[i].block_type = "list_item"
                 /\ (i = 1 \/ blocks[i - 1].block_type # "list_item")})

ListItems(blocks) ==
  Cardinality({i \in 1..Len(blocks) : blocks[i].block_type = "list_item"})

RECURSIVE SumOver(_, _)
SumOver(chs, k) ==
  IF k = 0 THEN <<0, 0>>
  ELSE LET rest == SumOver(chs, k - 1)
       IN  <<rest[1] + ListRuns(chs[k].blocks),
             rest[2] + ListItems(chs[k].blocks)>>

(***************************************************************************)
(* C10: in the HTML every maximal run of k list items of a chapter is one  *)
(* <ul> ... </ul> pair with k <li> elements, and the visible text of each  *)
(* <li> does not begin with the bullet glyph of its line.                  *)
(***************************************************************************)
C10_ListRunsAsBulletFreeItems ==
  Returned =>
    LET n == SumOver(content.chapters, Len(content.chapters))
    IN  /\ CountToken(raw_html, "<ul>") = n[1]
        /\ CountToken(raw_html, "</ul>") = n[1]
        /\ CountToken(raw_html, "<li>") = n[2]
        /\ \A i \in 1..Len(raw_html) :
             raw_html[i] = "<li>" =>
               LET j == SkipClass(raw_html, i + 1, {"<strong>", "<em>"})
               IN  raw_html[j] \notin BulletGlyphs

(***************************************************************************)
(* C11: a line whose text begins with a straight or typographic quotation  *)
(* mark, a guillemet or a dash, and that is neither footer nor heading, is *)
(* classified quote and is one <blockquote> element of the HTML.           *)
(***************************************************************************)
QuoteOpeners == {DQ, "ldquo", "laquo", "emdash", "endash"}

C11_QuoteLinesAreBlockquotes ==
  Returned =>
    \A i \in 1..Len(all_blocks) :
      LET b == all_blocks[i]
      IN  (/\ b.text # <<>>
           /\ b.text[1] \in QuoteOpeners
           /\ b.block_type \notin {"footer", "heading"})
          => /\ b.block_type = "quote"
             /\ Contains(raw_html,
                         <<"<blockquote>">> \o StyledText(b)
                         \o <<"</blockquote>">>)

(***************************************************************************)
(* extract_pdf on one document with no other caller, as one function of    *)
(* the document: the stages of extract composed in their order.            *)
(***************************************************************************)
RECURSIVE DocBlocks(_, _, _)
DocBlocks(d, n, seed) ==
  IF n >= Len(d) THEN <<>>
  ELSE ExtractPageBlocks(d[n + 1], n, seed) \o DocBlocks(d, n + 1, seed)

\* _organize_chapters from block k on
RECURSIVE OrganizeChapters(_, _, _, _, _)
OrganizeChapters(blocks, k, chs, current, base) ==
  IF k > Len(blocks) THEN FinalChapters(chs, current)
  ELSE IF blocks[k].block_type = "footer"
    THEN OrganizeChapters(blocks, k + 1, chs, current, base)
  ELSE IF OpensChapter(blocks[k], current, base)
    THEN OrganizeChapters(blocks, k + 1, Append(chs, current),
                          Chapter(blocks[k].text,
                                  GetHeadingLevel(blocks[k], base),
                                  blocks[k].page_num),
                          base)
  ELSE OrganizeChapters(blocks, k + 1, chs,
                        [current EXCEPT !.blocks = Append(@, blocks[k])],
                        base)

ExtractPdf(d, m, seed) ==
  LET blocks == DocBlocks(d, 0, seed)
      sizes  == PositiveSizes(blocks)
      base   == IF sizes # <<>> THEN MostCommonNumber(sizes)
                ELSE DefaultBaseFontSize
      typed  == [i \in 1..Len(blocks) |->
                   [blocks[i] EXCEPT !.block_type = ClassifyBlock(blocks[i], base)]]
      c0     == [EmptyContent EXCEPT
                   !.total_pages = Len(d),
                   !.metadata = ExtractMetadata(m),
                   !.chapters = OrganizeChapters(typed, 1, <<>>,
                                                 LeadingChapter, base)]
      c1     == [c0 EXCEPT !.title = DetectBookTitle(c0, base),
                           !.author = c0.metadata.author]
      c2     == [c1 EXCEPT !.word_count = CountedWords(c1)]
  IN  [content |-> c2, raw_html |-> GenerateHtmlText(c2, base)]

(***************************************************************************)
(* Specification SpecParallel: two callers of extract_pdf in one process,  *)
(* each with its own PDFExtractor and its own document.  The variables     *)
(* hold the extraction that runs; other holds the one that waits.  Switch  *)
(* is the scheduler passing from one to the other between two steps.       *)
(***************************************************************************)
\* the extraction that runs, as the record that other keeps
Running ==
  [run |-> TRUE, doc |-> doc, meta |-> meta,
   base_font_size |-> base_font_size, page_margins |-> page_margins,
   pc |-> pc, page_num |-> page_num, all_blocks |-> all_blocks,
   font_sizes |-> font_sizes, chapters |-> chapters,
   current_chapter |-> current_chapter, next_block |-> next_block,
   content |-> content, raw_html |-> raw_html, returned |-> returned]

\* an extraction that has not started
Waiting(d, m) ==
  [run |-> TRUE, doc |-> d, meta |-> m,
   base_font_size |-> DefaultBaseFontSize, page_margins |-> Margins,
   pc |-> "start", page_num |-> 0, all_blocks |-> <<>>,
   font_sizes |-> <<>>, chapters |-> <<>>,
   current_chapter |-> LeadingChapter, next_block |-> 1,
   content |-> EmptyContent, raw_html |-> <<>>, returned |-> "nothing"]

\* mutant: base_font_size belongs to the class, not to the instance
SwitchSharedBaseline ==
  /\ other.run
  /\ other' = Running
  /\ doc' = other.doc
  /\ meta' = other.meta
  /\ page_margins' = other.page_margins
  /\ pc' = other.pc
  /\ page_num' = other.page_num
  /\ all_blocks' = other.all_blocks
  /\ font_sizes' = other.font_sizes
  /\ chapters' = other.chapters
  /\ current_chapter' = other.current_chapter
  /\ next_block' = other.next_block
  /\ content' = other.content
  /\ raw_html' = other.raw_html
  /\ returned' = other.returned
  /\ UNCHANGED <<hashseed, prev, base_font_size, app>>

\* the other caller runs next: its instance and its locals come into view
Switch ==
  /\ other.run
  /\ other' = Running
  /\ doc' = other.doc
  /\ meta' = other.meta
  /\ base_font_size' = other.base_font_size
  /\ page_margins' = other.page_margins
  /\ pc' = other.pc
  /\ page_num' = other.page_num
  /\ all_blocks' = other.all_blocks
  /\ font_sizes' = other.font_sizes
  /\ chapters' = other.chapters
  /\ current_chapter' = other.current_chapter
  /\ next_block' = other.next_block
  /\ content' = other.content
  /\ raw_html' = other.raw_html
  /\ returned' = other.returned
  /\ UNCHANGED <<hashseed, prev, app>>

NextParallel ==
  \/ Next
  \/ Switch

LnHelloBig == Plain(TxtHello, 20)

ParallelDocs ==
  {Paginate(ls, LinesPerPage) :
     ls \in {<<LnHello, LnPageNum, LnCap1, LnHello>>,
             <<LnHelloBig, LnHelloBig, LnCap1>>,
             <<LnSection, LnHello>>,
             <<>>}}

InitParallel ==
  /\ doc \in ParallelDocs
  /\ meta = NoMeta
  /\ hashseed = 0
  /\ prev = NoRun
  /\ app = NoTask
  /\ Fresh
  /\ other \in {Waiting(d, m) : d \in ParallelDocs, m \in {NoMeta, FullMeta}}

SpecParallel == InitParallel /\ [][NextParallel]_vars

(***************************************************************************)
(* C12: under every interleaving of two extractions that run on separate   *)
(* PDFExtractor instances, each returns the BookContent and the HTML that  *)
(* its document gives when it is extracted alone.                          *)
(***************************************************************************)
C12_ParallelEqualsAlone ==
  /\ Returned =>
       [content |-> content, raw_html |-> raw_html]
         = ExtractPdf(doc, meta, hashseed)
  /\ (other.run /\ other.returned = "content") =>
       [content |-> other.content, raw_html |-> other.raw_html]
         = ExtractPdf(other.doc, other.meta, hashseed)

\* both extractions have returned, their baselines differ, and one of them
\* held a heading of level 1
C12_Witness ==
  /\ Returned
  /\ other.run
  /\ other.returned = "content"
  /\ other.base_font_size # base_font_size
  /\ Len(content.chapters) = 2
  /\ Len(other.content.chapters) = 1

(***************************************************************************)
(* Specification SpecTitle: one call of extract_pdf on a document of up to *)
(* MaxLead paragraphs and page numbers followed by up to two headings, so  *)
(* that a large heading stands within and beyond the first five blocks of  *)
(* the first chapter, with and without a metadata title.                   *)
(***************************************************************************)
MaxLead == 5

\* '1. Intro' at 1.3 times the size of LnHello
LnMinor == Plain(TxtSection, 13)

LeadLines == SeqsUpTo({LnHello, LnPageNum}, MaxLead)

TitleTails == SeqsUpTo({LnSection, LnMinor, LnCap1}, 2)

TitleDocs ==
  {Paginate(lead \o tail, LinesPerPage) : lead \in LeadLines, tail \in TitleTails}

InitTitle == InitOf(TitleDocs, {NoMeta, FullMeta}, {0})

SpecTitle == InitTitle /\ [][Next]_vars

(***************************************************************************)
(* C13: the title is the metadata title when that is not empty; else the   *)
(* title of the first chapter when that is not the sentinel; else the text *)
(* of the first heading of size >= 1.5 times the baseline among the first  *)
(* five blocks of the first chapter; else the placeholder.  A document     *)
(* with no metadata title that opens with a heading of level 1 is titled   *)
(* by that heading, and one with no chapter by the placeholder.            *)
(***************************************************************************)
\* the indexes, among the first five blocks, of the headings large enough
LargeHeadings(blocks) ==
  {i \in 1..Len(blocks) :
     /\ i <= 5
     /\ blocks[i].block_type = "heading"
     /\ 2 * blocks[i].font_size >= 3 * base_font_size}

C13_TitleByFirstSource ==
  Returned =>
    LET chs == content.chapters
    IN  /\ meta.title # <<>> => content.title = meta.title
        /\ (meta.title = <<>> /\ chs # <<>> /\ chs[1].title \notin {<<>>, Inicio})
             => content.title = chs[1].title
        /\ (meta.title = <<>> /\ chs # <<>> /\ chs[1].title \in {<<>>, Inicio})
             => LET hits == LargeHeadings(chs[1].blocks)
                IN  /\ hits # {} =>
                         \E i \in hits :
                           /\ \A j \in hits : i <= j
                           /\ content.title = chs[1].blocks[i].text
                    /\ hits = {} => content.title = LivroSemTitulo
        /\ (meta.title = <<>> /\ chs = <<>>) => content.title = LivroSemTitulo
        /\ (/\ meta.title = <<>>
            /\ NonFooter(all_blocks) # <<>>
            /\ IsLevel1(NonFooter(all_blocks)[1]))
             => content.title = NonFooter(all_blocks)[1].text

\* returned with no metadata title, five paragraphs and then a heading at
\* 1.5 times the baseline: the sixth block is not looked at
C13_Witness ==
  /\ Returned
  /\ meta.title = <<>>
  /\ Len(content.chapters) = 1
  /\ Len(content.chapters[1].blocks) >= 6
  /\ content.chapters[1].blocks[6].block_type = "heading"
  /\ 2 * content.chapters[1].blocks[6].font_size >= 3 * base_font_size
  /\ LargeHeadings(content.chapters[1].blocks) = {}
  /\ content.title = LivroSemTitulo

(***************************************************************************)
(* C14: when _organize_chapters reads a heading of level 1 while the       *)
(* leading chapter holds no block, the text of the heading becomes the     *)
(* title of the leading chapter, the heading is appended to no block list  *)
(* and no chapter is opened.                                               *)
(***************************************************************************)
C14_FirstHeadingTitlesLeadingChapter ==
  [][(/\ InLoop
      /\ chapters = <<>>
      /\ current_chapter = LeadingChapter
      /\ IsLevel1(all_blocks[next_block]))
     => (/\ chapters' = <<>>
         /\ current_chapter' =
              [LeadingChapter EXCEPT !.title = all_blocks[next_block].text])]_vars

(***************************************************************************)
(* C15: when _organize_chapters reads a heading of level 1 while the       *)
(* current chapter holds a block, the current chapter goes to the output   *)
(* with the blocks it has, and the new current chapter has the text of the *)
(* heading as title, level 1, the page of the heading as page_start and no *)
(* block; a chapter that is in the output never changes.                   *)
(***************************************************************************)
C15_Level1HeadingOpensChapter ==
  [][/\ (/\ InLoop
         /\ IsLevel1(all_blocks[next_block])
         /\ current_chapter.blocks # <<>>)
        => (/\ chapters' = Append(chapters, current_chapter)
            /\ current_chapter' =
                 [title      |-> all_blocks[next_block].text,
                  level      |-> 1,
                  blocks     |-> <<>>,
                  page_start |-> all_blocks[next_block].page_num])
     /\ pc = "organize"
        => (/\ Len(chapters') >= Len(chapters)
            /\ \A k \in 1..Len(chapters) : chapters'[k] = chapters[k])]_vars

\* a chapter opened by a heading on the second page holds a block read
\* after the heading, and the chapter before it is in the output
C15_Witness ==
  /\ pc = "organize"
  /\ Len(chapters) = 1
  /\ chapters[1].title = Inicio
  /\ chapters[1].blocks # <<>>
  /\ current_chapter.title = TxtCap1
  /\ current_chapter.level = 1
  /\ current_chapter.page_start = 1
  /\ Len(current_chapter.blocks) = 1

(***************************************************************************)
(* C16: a heading of level 2 to 5, a quote, a list item and a paragraph do *)
(* not open a chapter; each is appended as it is to the current chapter.   *)
(* The blocks of the returned chapters, taken chapter after chapter, are   *)
(* lines of the document in document order, none of them twice, and the    *)
(* chapters follow the order of the pages.                                 *)
(***************************************************************************)
\* the least index from k on at which block b stands in blocks, or 0
RECURSIVE IndexFrom(_, _, _)
IndexFrom(blocks, b, k) ==
  IF k > Len(blocks) THEN 0
  ELSE IF blocks[k] = b THEN k
  ELSE IndexFrom(blocks, b, k + 1)

\* sub is blocks with some of its elements left out
RECURSIVE IsSubsequence(_, _, _)
IsSubsequence(sub, blocks, k) ==
  IF sub = <<>> THEN TRUE
  ELSE LET i == IndexFrom(blocks, Head(sub), k)
       IN  i # 0 /\ IsSubsequence(Tail(sub), blocks, i + 1)

C16_OtherBlocksAreAppended ==
  /\ [][(/\ InLoop
         /\ all_blocks[next_block].block_type # "footer"
         /\ ~IsLevel1(all_blocks[next_block]))
        => (/\ chapters' = chapters
            /\ current_chapter' =
                 [current_chapter EXCEPT
                    !.blocks = Append(@, all_blocks[next_block])])]_vars
  /\ [](Returned =>
          /\ IsSubsequence(StoredBlocks(content.chapters), all_blocks, 1)
          /\ \A k \in 1..(Len(content.chapters) - 1) :
               content.chapters[k].page_start
                 <= content.chapters[k + 1].page_start)

\* returned with one chapter of four blocks, the last of them a heading of
\* level 3
C16_Witness ==
  /\ Returned
  /\ Len(content.chapters) = 1
  /\ Len(content.chapters[1].blocks) = 4
  /\ content.chapters[1].blocks[4].block_type = "heading"
  /\ GetHeadingLevel(content.chapters[1].blocks[4], base_font_size) = 3
  /\ content.chapters[1].blocks[4] = all_blocks[4]

(***************************************************************************)
(* C17: the baseline is the most frequent of the positive font sizes of    *)
(* the lines of the document and, among several sizes of the highest       *)
(* frequency, the smallest.                                                *)
(***************************************************************************)
\* the sizes of xs that no other size of xs outnumbers
MostFrequent(xs) ==
  {xs[i] : i \in {i \in 1..Len(xs) :
                    \A j \in 1..Len(xs) : Count(xs, xs[j]) <= Count(xs, xs[i])}}

C17_BaselineIsSmallestMostFrequent ==
  (Classified /\ font_sizes # <<>>) =>
    /\ base_font_size \in MostFrequent(font_sizes)
    /\ \A s \in MostFrequent(font_sizes) : base_font_size <= s

(***************************************************************************)
(* Specification SpecReuse: a caller holds one PDFExtractor and calls      *)
(* extract on a document and then on another one.  Some of the documents   *)
(* have no line of positive font size.                                     *)
(***************************************************************************)
ReuseDocs ==
  {Paginate(ls, LinesPerPage) :
     ls \in {<<>>,
             <<Plain(TxtHello, 0)>>,
             <<Plain(TxtSection, 0), Plain(TxtHello, 0)>>,
             <<LnHello, LnPageNum, LnCap1, LnHello>>,
             <<LnHelloBig, LnHelloBig, LnCap1>>}}

\* extractor.extract(other_path) on the instance that has returned: the
\* locals are new, self.base_font_size is what the last call left
ExtractNext ==
  /\ pc = "done"
  /\ ~prev.run
  /\ prev' = [run |-> TRUE, content |-> content, raw_html |-> raw_html]
  /\ doc' \in ReuseDocs
  /\ pc' = "start"
  /\ page_num' = 0
  /\ all_blocks' = <<>>
  /\ font_sizes' = <<>>
  /\ chapters' = <<>>
  /\ current_chapter' = LeadingChapter
  /\ next_block' = 1
  /\ content' = EmptyContent
  /\ raw_html' = <<>>
  /\ returned' = "nothing"
  /\ UNCHANGED <<meta, hashseed, base_font_size, page_margins, other, app>>

NextReuse ==
  \/ Next
  \/ ExtractNext

InitReuse == InitOf(ReuseDocs, {NoMeta}, {0})

SpecReuse == InitReuse /\ [][NextReuse]_vars

(***************************************************************************)
(* C18: a document with no line of positive font size is classified and    *)
(* its headings are levelled with the default baseline, 12, also when the  *)
(* PDFExtractor has extracted a document of another baseline before.       *)
(***************************************************************************)
C18_DefaultBaselineWithoutSizes ==
  (Classified /\ font_sizes = <<>>) => base_font_size = DefaultBaseFontSize

(***************************************************************************)
(* C19: the font name and the font size of a line are each the value that  *)
(* most of its spans with text have, one vote per span, and among several  *)
(* values of the highest count the one that comes first in the line.       *)
(***************************************************************************)
\* the lines with text of all pages, in document order
RECURSIVE TextLines(_, _)
TextLines(d, n) ==
  IF n > Len(d) THEN <<>>
  ELSE LET RECURSIVE Kept(_)
           Kept(ls) == IF ls = <<>> THEN <<>>
                       ELSE (IF KeptSpans(Head(ls)) = <<>> THEN <<>>
                             ELSE <<KeptSpans(Head(ls))>>) \o Kept(Tail(ls))
       IN  Kept(d[n][2].lines) \o TextLines(d, n + 1)

\* the value of highest count in xs that occurs first in xs
FirstMostFrequent(xs) ==
  xs[CHOOSE i \in 1..Len(xs) :
       /\ \A j \in 1..Len(xs) : Count(xs, xs[j]) <= Count(xs, xs[i])
       /\ \A j \in 1..(i - 1) : Count(xs, xs[j]) < Count(xs, xs[i])]

C19_DominantFontByFirstOccurrence ==
  pc \notin {"start", "pages"} =>
    LET lines == TextLines(doc, 1)
    IN  /\ Len(all_blocks) = Len(lines)
        /\ \A i \in 1..Len(lines) :
             LET spans == lines[i]
             IN  /\ all_blocks[i].font_name =
                      FirstMostFrequent([k \in 1..Len(spans) |-> spans[k].font])
                 /\ all_blocks[i].font_size =
                      FirstMostFrequent([k \in 1..Len(spans) |-> spans[k].size])

(***************************************************************************)
(* C20: between chapter segmentation and HTML serialization neither the    *)
(* baseline nor a block changes, so the <hN> tag of a heading carries the  *)
(* level that _organize_chapters read: a heading stored in a chapter is    *)
(* shown at its level, a heading shown at level 1 is the first block of    *)
(* its chapter, and a chapter opened by a heading has level 1.             *)
(***************************************************************************)
C20_HeadingLevelIsStable ==
  /\ [][(pc \in {"organize", "title", "count", "html"})
        => (base_font_size' = base_font_size /\ all_blocks' = all_blocks)]_vars
  /\ [](Returned =>
          \A k \in 1..Len(content.chapters) :
            /\ k > 1 => content.chapters[k].level = 1
            /\ \A n \in 1..Len(content.chapters[k].blocks) :
                 LET b     == content.chapters[k].blocks[n]
                     level == GetHeadingLevel(b, base_font_size)
                 IN  b.block_type = "heading" =>
                       /\ \E i \in 1..Len(all_blocks) : all_blocks[i] = b
                       /\ Contains(raw_html, HeadingPart(level, StyledText(b)))
                       /\ level = 1 => n = 1)

\* returned with a chapter opened by a heading of level 1 that holds a
\* heading of level 2
C20_Witness ==
  /\ Returned
  /\ Len(content.chapters) = 2
  /\ content.chapters[2].level = 1
  /\ content.chapters[2].title = TxtCap1
  /\ \E n \in 1..Len(content.chapters[2].blocks) :
       /\ content.chapters[2].blocks[n].block_type = "heading"
       /\ GetHeadingLevel(content.chapters[2].blocks[n], base_font_size) = 2
       /\ Contains(raw_html,
                   HeadingPart(2, StyledText(content.chapters[2].blocks[n])))

(***************************************************************************)
(* C21: extract leaves the fields of the PDFExtractor as they were before  *)
(* the call: no step of an extraction changes base_font_size or            *)
(* page_margins.                                                           *)
(***************************************************************************)
C21_ExtractorFieldsUnchanged ==
  [][base_font_size' = base_font_size /\ page_margins' = page_margins]_vars

(***************************************************************************)
(* C22: for every block classified list_item, whatever its marker (bullet  *)
(* glyph, number, letter, roman numeral) and its bold and italic flags,    *)
(* the text inside its <li> is the text of the block without the leading   *)
(* marker.                                                                 *)
(***************************************************************************)
\* the text after the first word of t and the spaces that follow it
AfterMarker(t) ==
  LET a == SkipClass(t, 1, Space)
      b == CHOOSE j \in a..(Len(t) + 1) :
             /\ \A k \in a..(j - 1) : t[k] \notin Space
             /\ (j = Len(t) + 1 \/ t[j] \in Space)
      c == SkipClass(t, b, Space)
  IN  SubSeq(t, c, Len(t))

C22_ItemTextWithoutMarker ==
  Returned =>
    \A k \in 1..Len(content.chapters) :
      \A n \in 1..Len(content.chapters[k].blocks) :
        LET b == content.chapters[k].blocks[n]
        IN  b.block_type = "list_item" =>
              Contains(raw_html,
                       <<"<li>">>
                       \o StyledText([b EXCEPT !.text = AfterMarker(b.text)])
                       \o <<"</li>">>)

(***************************************************************************)
(* Documents of list items, quotes, headings, paragraphs and footers, for  *)
(* the markup of _generate_html.                                           *)
(***************************************************************************)
LnDito == Plain(TxtDito, 10)

MaxHtmlLines == 4

HtmlLines == {LnItemTwoItalic, LnDito, LnHello, LnPageNum, LnCap1, LnMinor}

HtmlDocs ==
  {Paginate(ls, LinesPerPage) : ls \in SeqsUpTo(HtmlLines, MaxHtmlLines)}

InitHtml == InitOf(HtmlDocs, {NoMeta}, {0})

SpecHtml == InitHtml /\ [][Next]_vars

SectionOpen == "<section class=\"chapter\" data-page=\""

\* the markup that opens or closes an element of a chapter
BlockMarkup ==
  {SectionOpen, "</section>", "<ul>", "</ul>", "<li>", "</li>",
   "<p>", "</p>", "<blockquote>", "</blockquote>", "<h", "</h"}

\* the element the markup is in after the token tok is read in element st;
\* "bad" when tok may not occur there
NestStep(st, tok) ==
  CASE st = "bad" -> "bad"
    [] st = "body" ->
         IF tok = SectionOpen THEN "section"
         ELSE IF tok \in {"</section>", "<ul>", "</ul>", "<li>", "</li>",
                          "<blockquote>", "</blockquote>"} THEN "bad"
         ELSE "body"
    [] st = "section" ->
         IF tok = "</section>" THEN "body"
         ELSE IF tok = "<ul>" THEN "ul"
         ELSE IF tok = "<p>" THEN "p"
         ELSE IF tok = "<blockquote>" THEN "blockquote"
         ELSE IF tok = "<h" THEN "h"
         ELSE IF tok \in BlockMarkup THEN "bad"
         ELSE "section"
    [] st = "ul" ->
         IF tok = "<li>" THEN "li"
         ELSE IF tok = "</ul>" THEN "section"
         ELSE IF tok = "\n" THEN "ul"
         ELSE "bad"
    [] st = "li" ->
         IF tok = "</li>" THEN "ul"
         ELSE IF tok \in BlockMarkup THEN "bad" ELSE "li"
    [] st = "p" ->
         IF tok = "</p>" THEN "section"
         ELSE IF tok \in BlockMarkup THEN "bad" ELSE "p"
    [] st = "blockquote" ->
         IF tok = "</blockquote>" THEN "section"
         ELSE IF tok \in BlockMarkup THEN "bad" ELSE "blockquote"
    [] st = "h" ->
         IF tok = "</h" THEN "section"
         ELSE IF tok \in BlockMarkup THEN "bad" ELSE "h"

\* the element the markup is in after t[lo..hi] is read in element st
RECURSIVE NestOver(_, _, _, _)
NestOver(st, t, lo, hi) ==
  IF lo > hi THEN st
  ELSE IF lo = hi THEN NestStep(st, t[lo])
  ELSE LET mid  == (lo + hi) \div 2
           left == NestOver(st, t, lo, mid)
       IN  IF left = "bad" THEN "bad" ELSE NestOver(left, t, mid + 1, hi)

NestAfter(t, n) == NestOver("body", t, 1, n)

\* the data-page values of the sections of t, in order
SectionPages(t) ==
  LET at == SelectSeq([i \in 1..Len(t) |-> i], LAMBDA i : t[i] = SectionOpen)
  IN  [k \in 1..Len(at) |-> t[at[k] + 1]]

(***************************************************************************)
(* C23: the markup of _generate_html is well nested: <ul> holds only <li>  *)
(* elements, a heading, quote or paragraph is emitted outside any list,    *)
(* lists do not nest, no list is open at </section>, and there is one      *)
(* <section> ... </section> pair per chapter, in chapter order.            *)
(***************************************************************************)
C23_MarkupWellNested ==
  Returned =>
    /\ NestAfter(raw_html, Len(raw_html)) = "body"
    /\ SectionPages(raw_html)
         = [k \in 1..Len(content.chapters) |->
              Str(content.chapters[k].page_start)[1]]
    /\ CountToken(raw_html, "</section>") = Len(content.chapters)

C23_ListClosedBeforeQuoteAndSection ==
  /\ Returned
  /\ Len(content.chapters) = 2
  /\ Contains(raw_html, <<"</li>", "\n", "</ul>", "\n", "<blockquote>">>)
  /\ Contains(raw_html, <<"</li>", "\n", "</ul>", "\n", "</section>">>)

(***************************************************************************)
(* C24: every chapter _organize_chapters appends to its output, the        *)
(* leading one or one opened by a heading, holds at least one block, so    *)
(* the returned chapters are never empty and no <section> of the HTML is   *)
(* empty.                                                                  *)
(***************************************************************************)
C24_NoEmptyChapter ==
  /\ \A k \in 1..Len(chapters) : chapters[k].blocks # <<>>
  /\ \A k \in 1..Len(content.chapters) : content.chapters[k].blocks # <<>>
  /\ Returned => ~Contains(raw_html, <<"\">", "\n", "</section>">>)

\* the leading chapter and a chapter opened by a heading were returned, and
\* the chapter a last heading opened was left without blocks
C24_Witness ==
  /\ Returned
  /\ Len(content.chapters) = 2
  /\ content.chapters[2].title # Inicio
  /\ current_chapter.title # Inicio
  /\ current_chapter.blocks = <<>>

\* the texts the chapters carry, in order: the title of every chapter a
\* heading opened, and the text of every block
RECURSIVE Represented(_, _)
Represented(chs, k) ==
  IF k > Len(chs) THEN <<>>
  ELSE (IF k = 1 THEN <<>> ELSE <<chs[k].title>>)
       \o [n \in 1..Len(chs[k].blocks) |-> chs[k].blocks[n].text]
       \o Represented(chs, k + 1)

(***************************************************************************)
(* C25: chapter segmentation loses no content: the non-footer lines, in    *)
(* order, are exactly the titles of the chapters opened by a heading and   *)
(* the blocks of the returned chapters, each line once; a level-1 heading  *)
(* that is the last non-footer line included.                              *)
(***************************************************************************)
C25_EveryLineRepresentedOnce ==
  Returned =>
    Represented(content.chapters, 1)
      = [i \in 1..Len(NonFooter(all_blocks)) |-> NonFooter(all_blocks)[i].text]

\* a level-1 heading is read while the current chapter holds a block
Level1AfterBlocks ==
  /\ InLoop
  /\ IsLevel1(all_blocks[next_block])
  /\ current_chapter.blocks # <<>>

(***************************************************************************)
(* C26: in every chapter a level-1 heading block occurs only as the first  *)
(* block: it is appended as a block only to an empty chapter, and a        *)
(* level-1 heading read while the current chapter holds a block becomes    *)
(* the title of a new chapter.                                             *)
(***************************************************************************)
C26_Level1BlockOnlyFirst ==
  /\ [](\A c \in HeldChapters :
          \A n \in 1..Len(c.blocks) : IsLevel1(c.blocks[n]) => n = 1)
  /\ [][Level1AfterBlocks =>
          /\ chapters' = Append(chapters, current_chapter)
          /\ current_chapter'.title = all_blocks[next_block].text
          /\ current_chapter'.blocks = <<>>]_vars

\* a level-1 heading was stored as the first block of the leading chapter
\* and a later one became the title of the second chapter
C26_Witness ==
  /\ Returned
  /\ Len(content.chapters) = 2
  /\ IsLevel1(content.chapters[1].blocks[1])
  /\ content.chapters[2].title = TxtCap2

(***************************************************************************)
(* C27: the baseline of an extractor is strictly positive in every state   *)
(* (12 at construction, afterwards only a size that passed the > 0 test),  *)
(* so the ratio font_size / baseline is defined for every block, lines of  *)
(* size zero included.                                                     *)
(***************************************************************************)
C27_BaselinePositive ==
  /\ base_font_size > 0
  /\ \A i \in 1..Len(font_sizes) : font_sizes[i] > 0

\* the second extraction of the instance returned for a document whose
\* lines have size zero, one of them a heading whose level was computed
C27_Witness ==
  /\ Returned
  /\ prev.run
  /\ Len(all_blocks) = 2
  /\ \A k \in 1..2 : all_blocks[k].font_size = 0
  /\ all_blocks[1].block_type = "heading"
  /\ Contains(raw_html, HeadingPart(5, TxtSection))

(***************************************************************************)
(* Specification SpecPipeline: one run of the background task              *)
(* process_pdf_pipeline of the upload route.  app.task is its position;    *)
(* every call of the database client and of a service either returns or    *)
(* raises.                                                                 *)
(***************************************************************************)
\* db.update_project_status(project_id, status, error_message)
UpdateProjectStatus(a, status, error_message) ==
  [a EXCEPT !.project.status = status,
            !.project.error_message =
                IF error_message # "" THEN error_message ELSE @,
            !.written = Append(@, status)]

\* an exception leaves the try block for the except clause
Raise(a, e) == [a EXCEPT !.task = "except", !.raised = e]

\* await db.update_project_status(project_id, ProjectStatus.EXTRACTING)
SetExtracting ==
  /\ app.task = "begin"
  /\ \E ok \in BOOLEAN :
       app' = IF ok
                THEN [UpdateProjectStatus(app, "extracting", "")
                        EXCEPT !.task = "extract"]
                ELSE Raise(app, "db")
  /\ UNCHANGED <<doc, meta, hashseed, base_font_size, page_margins, pc,
                 page_num, all_blocks, font_sizes, chapters, current_chapter,
                 next_block, content, raw_html, returned, prev, other>>

\* content_json, raw_html = extract_pdf(pdf_path): fitz.open raises, or the
\* extraction has returned
ExtractContent ==
  /\ app.task = "extract"
  /\ \/ /\ pc = "start"
        /\ app' = Raise(app, "fitz")
     \/ /\ Returned
        /\ app' = [app EXCEPT !.task = "parsed",
                              !.extracted =
                                 [run |-> TRUE, content |-> content,
                                  raw_html |-> raw_html]]
  /\ UNCHANGED <<doc, meta, hashseed, base_font_size, page_margins, pc,
                 page_num, all_blocks, font_sizes, chapters, current_chapter,
                 next_block, content, raw_html, returned, prev, other>>

\* the steps of PDFExtractor().extract(pdf_path) inside extract_pdf
RunExtractor ==
  /\ app.task = "extract"
  /\ Next

\* await db.update_project_status(project_id, ProjectStatus.PARSED)
SetParsed ==
  /\ app.task = "parsed"
  /\ \E ok \in BOOLEAN :
       app' = IF ok
                THEN [UpdateProjectStatus(app, "parsed", "")
                        EXCEPT !.task = "create_structure"]
                ELSE Raise(app, "db")
  /\ UNCHANGED <<doc, meta, hashseed, base_font_size, page_margins, pc,
                 page_num, all_blocks, font_sizes, chapters, current_chapter,
                 next_block, content, raw_html, returned, prev, other>>

\* structure = await db.create_book_structure(...): a row, None, or raises
CreateBookStructure ==
  /\ app.task = "create_structure"
  /\ \E out \in {"raw", "missing", "raise"} :
       app' = IF out = "raise" THEN Raise(app, "db")
              ELSE [app EXCEPT !.task = "normalizing", !.structure = out]
  /\ UNCHANGED <<doc, meta, hashseed, base_font_size, page_margins, pc,
                 page_num, all_blocks, font_sizes, chapters, current_chapter,
                 next_block, content, raw_html, returned, prev, other>>

\* await db.update_project_status(project_id, ProjectStatus.NORMALIZING)
SetNormalizing ==
  /\ app.task = "normalizing"
  /\ \E ok \in BOOLEAN :
       app' = IF ok
                THEN [UpdateProjectStatus(app, "normalizing", "")
                        EXCEPT !.task = "normalize"]
                ELSE Raise(app, "db")
  /\ UNCHANGED <<doc, meta, hashseed, base_font_size, page_margins, pc,
                 page_num, all_blocks, font_sizes, chapters, current_chapter,
                 next_block, content, raw_html, returned, prev, other>>

\* normalized_json, normalized_html, error = await normalize_book_structure(..)
Normalize ==
  /\ app.task = "normalize"
  /\ \E out \in {"titled", "untitled", "error", "raise"} :
       app' = CASE out = "raise" -> Raise(app, "ai")
                [] out = "error" -> [app EXCEPT !.task = "normalize_failed"]
                [] OTHER -> [app EXCEPT !.task = "update_structure",
                                        !.titled = (out = "titled")]
  /\ UNCHANGED <<doc, meta, hashseed, base_font_size, page_margins, pc,
                 page_num, all_blocks, font_sizes, chapters, current_chapter,
                 next_block, content, raw_html, returned, prev, other>>

\* if error: await db.update_project_status(.., PARSED, error_message=..);
\* return
SetParsedWithError ==
  /\ app.task = "normalize_failed"
  /\ \E ok \in BOOLEAN :
       app' = IF ok
                THEN [UpdateProjectStatus(app, "parsed", "AI normalization failed")
                        EXCEPT !.task = "finally"]
                ELSE Raise(app, "db")
  /\ UNCHANGED <<doc, meta, hashseed, base_font_size, page_margins, pc,
                 page_num, all_blocks, font_sizes, chapters, current_chapter,
                 next_block, content, raw_html, returned, prev, other>>

\* await db.update_book_structure(structure_id=structure["id"], ...)
UpdateBookStructure ==
  /\ app.task = "update_structure"
  /\ \E ok \in BOOLEAN :
       app' = IF app.structure = "missing" THEN Raise(app, "TypeError")
              ELSE IF ok
                THEN [app EXCEPT !.task = "title", !.structure = "normalized"]
              ELSE Raise(app, "db")
  /\ UNCHANGED <<doc, meta, hashseed, base_font_size, page_margins, pc,
                 page_num, all_blocks, font_sizes, chapters, current_chapter,
                 next_block, content, raw_html, returned, prev, other>>

\* if normalized_json.get("title"): db.client.table("projects").update(...)
UpdateTitle ==
  /\ app.task = "title"
  /\ \E ok \in BOOLEAN :
       app' = IF app.titled /\ ~ok THEN Raise(app, "db")
              ELSE [app EXCEPT !.task = "normalized"]
  /\ UNCHANGED <<doc, meta, hashseed, base_font_size, page_margins, pc,
                 page_num, all_blocks, font_sizes, chapters, current_chapter,
                 next_block, content, raw_html, returned, prev, other>>

\* await db.update_project_status(project_id, ProjectStatus.NORMALIZED)
SetNormalized ==
  /\ app.task = "normalized"
  /\ \E ok \in BOOLEAN :
       app' = IF ok
                THEN [UpdateProjectStatus(app, "normalized", "")
                        EXCEPT !.task = "finally"]
                ELSE Raise(app, "db")
  /\ UNCHANGED <<doc, meta, hashseed, base_font_size, page_margins, pc,
                 page_num, all_blocks, font_sizes, chapters, current_chapter,
                 next_block, content, raw_html, returned, prev, other>>

\* except Exception as e: await db.update_project_status(.., ERROR, str(e));
\* when the update raises too, the exception leaves the task
HandleException ==
  /\ app.task = "except"
  /\ \E ok \in BOOLEAN :
       app' = IF ok
                THEN [UpdateProjectStatus(app, "error", app.raised)
                        EXCEPT !.task = "finally", !.raised = ""]
                ELSE [app EXCEPT !.task = "finally", !.raised = "db"]
  /\ UNCHANGED <<doc, meta, hashseed, base_font_size, page_margins, pc,
                 page_num, all_blocks, font_sizes, chapters, current_chapter,
                 next_block, content, raw_html, returned, prev, other>>

\* finally: if os.path.exists(pdf_path): os.unlink(pdf_path)
RemoveTemporaryPdf ==
  /\ app.task = "finally"
  /\ app' = [app EXCEPT !.task = "finished", !.pdf_path = FALSE]
  /\ UNCHANGED <<doc, meta, hashseed, base_font_size, page_margins, pc,
                 page_num, all_blocks, font_sizes, chapters, current_chapter,
                 next_block, content, raw_html, returned, prev, other>>

NextPipeline ==
  \/ SetExtracting
  \/ RunExtractor
  \/ ExtractContent
  \/ SetParsed
  \/ CreateBookStructure
  \/ SetNormalizing
  \/ Normalize
  \/ SetParsedWithError
  \/ UpdateBookStructure
  \/ UpdateTitle
  \/ SetNormalized
  \/ HandleException
  \/ RemoveTemporaryPdf

\* background_tasks.add_task(process_pdf_pipeline, ..., pdf_path=temp_path)
InitPipeline ==
  /\ doc \in ParallelDocs
  /\ meta \in {NoMeta, FullMeta}
  /\ hashseed = 0
  /\ prev = NoRun
  /\ other = NoRun
  /\ app = [NoTask EXCEPT !.task = "begin", !.pdf_path = TRUE]
  /\ Fresh

SpecPipeline == InitPipeline /\ [][NextPipeline]_vars

(***************************************************************************)
(* C28: a finished run of process_pdf_pipeline has removed the temporary   *)
(* PDF and has left the project in status normalized, parsed or error,     *)
(* never in extracting or normalizing.                                     *)
(***************************************************************************)
C28_FinishedInFinalStatus ==
  app.task = "finished" =>
    /\ ~app.pdf_path
    /\ app.project.status \in {"normalized", "parsed", "error"}

(***************************************************************************)
(* Specification SpecApprove: MaxRequests requests POST /approve for one   *)
(* project whose current rendition has a preview, and the tasks they add.  *)
(* The requests are served concurrently; no lock or transaction spans the  *)
(* calls of the database client, so each call is one step.                 *)
(***************************************************************************)
MaxRequests == 3

Rendition(template_id, status) ==
  [template_id |-> template_id, status |-> status, is_current |-> TRUE,
   preview_html_path |-> FALSE, final_pdf_path |-> FALSE]

NewRequest == [at |-> "project", rendition |-> 0, response |-> ""]

Respond(a, i, response) ==
  [a EXCEPT !.requests[i].at = "responded",
            !.requests[i].response = response]

\* get_current_rendition: a row of the project with is_current, data[0]
CurrentRenditions(a) ==
  {r \in 1..Len(a.renditions) : a.renditions[r].is_current}

\* project = await db.get_project(project_id) and the checks on it
GetProject ==
  /\ \E i \in 1..Len(app.requests) :
       /\ app.requests[i].at = "project"
       /\ app' = IF app.project.status \notin {"templated", "approved"}
                   THEN Respond(app, i, "template must be applied first")
                   ELSE [app EXCEPT !.requests[i].at = "rendition"]
  /\ UNCHANGED <<doc, meta, hashseed, base_font_size, page_margins, pc,
                 page_num, all_blocks, font_sizes, chapters, current_chapter,
                 next_block, content, raw_html, returned, prev, other>>

\* rendition = await db.get_current_rendition(project_id) and the checks on
\* the row read
GetCurrentRendition ==
  /\ \E i \in 1..Len(app.requests) :
       /\ app.requests[i].at = "rendition"
       /\ IF CurrentRenditions(app) = {}
            THEN app' = Respond(app, i, "no template applied")
            ELSE \E r \in CurrentRenditions(app) :
                   LET rendition == app.renditions[r]
                   IN  app' =
                         IF ~rendition.preview_html_path
                           THEN Respond(app, i, "preview not generated")
                         ELSE IF rendition.status = "pdf_generating"
                           THEN Respond(app, i, "already being generated")
                         ELSE IF rendition.status = "pdf_generated"
                                 /\ rendition.final_pdf_path
                           THEN Respond(app, i, "already generated")
                         ELSE [app EXCEPT !.requests[i].at = "update_rendition",
                                          !.requests[i].rendition = r]
  /\ UNCHANGED <<doc, meta, hashseed, base_font_size, page_margins, pc,
                 page_num, all_blocks, font_sizes, chapters, current_chapter,
                 next_block, content, raw_html, returned, prev, other>>

\* await db.update_rendition(rendition["id"], status=PDF_GENERATING)
MarkGenerating ==
  /\ \E i \in 1..Len(app.requests) :
       /\ app.requests[i].at = "update_rendition"
       /\ app' = [app EXCEPT
                    !.renditions[app.requests[i].rendition].status =
                        "pdf_generating",
                    !.requests[i].at = "update_project"]
  /\ UNCHANGED <<doc, meta, hashseed, base_font_size, page_margins, pc,
                 page_num, all_blocks, font_sizes, chapters, current_chapter,
                 next_block, content, raw_html, returned, prev, other>>

\* await db.update_project_status(project_id, EXPORTING);
\* background_tasks.add_task(generate_pdf_task, ...); return
AddTask ==
  /\ \E i \in 1..Len(app.requests) :
       /\ app.requests[i].at = "update_project"
       /\ app' = [Respond(app, i, "generation started") EXCEPT
                    !.project.status = "exporting",
                    !.tasks = Append(@, [rendition_id |-> app.requests[i].rendition,
                                         running |-> TRUE])]
  /\ UNCHANGED <<doc, meta, hashseed, base_font_size, page_margins, pc,
                 page_num, all_blocks, font_sizes, chapters, current_chapter,
                 next_block, content, raw_html, returned, prev, other>>

\* generate_pdf_task: the PDF is rendered and uploaded, or a step fails
GeneratePdfTask ==
  /\ \E t \in 1..Len(app.tasks), ok \in BOOLEAN :
       /\ app.tasks[t].running
       /\ LET r == app.tasks[t].rendition_id
          IN  app' = IF ok
                       THEN [app EXCEPT
                               !.renditions[r].status = "pdf_generated",
                               !.renditions[r].final_pdf_path = TRUE,
                               !.project.status = "exported",
                               !.tasks[t].running = FALSE]
                       ELSE [app EXCEPT
                               !.renditions[r].status = "error",
                               !.project = [status |-> "error",
                                            error_message |-> "PDF export failed"],
                               !.tasks[t].running = FALSE]
  /\ UNCHANGED <<doc, meta, hashseed, base_font_size, page_margins, pc,
                 page_num, all_blocks, font_sizes, chapters, current_chapter,
                 next_block, content, raw_html, returned, prev, other>>

NextApprove ==
  \/ GetProject
  \/ GetCurrentRendition
  \/ MarkGenerating
  \/ AddTask
  \/ GeneratePdfTask

InitApprove ==
  /\ doc = <<>>
  /\ meta = NoMeta
  /\ hashseed = 0
  /\ prev = NoRun
  /\ other = NoRun
  /\ Fresh
  /\ \E status \in {"templated", "normalized"},
        rendition \in {"preview_generated", "pdf_generated", "error"} :
       app = [NoTask EXCEPT
                !.project.status = status,
                !.renditions =
                   << [Rendition(1, rendition) EXCEPT
                         !.preview_html_path = TRUE,
                         !.final_pdf_path = (rendition = "pdf_generated")] >>,
                !.requests = [i \in 1..MaxRequests |-> NewRequest]]

SpecApprove == InitApprove /\ [][NextApprove]_vars

\* the tasks of rendition r that have not finished
TasksInFlight(r) ==
  {t \in 1..Len(app.tasks) :
     app.tasks[t].rendition_id = r /\ app.tasks[t].running}

(***************************************************************************)
(* C29: for each rendition at most one generate_pdf_task is in flight:     *)
(* after one approve request has set the rendition to pdf_generating, no   *)
(* other approve request, served concurrently or later, adds a second      *)
(* task.                                                                   *)
(***************************************************************************)
C29_AtMostOneTaskInFlight ==
  \A r \in 1..Len(app.renditions) : Cardinality(TasksInFlight(r)) <= 1

(***************************************************************************)
(* Specification SpecRenditions: MaxCallers requests POST /apply-template  *)
(* for one project, each with its own template, served concurrently.  The  *)
(* two statements of create_rendition are two calls of the database        *)
(* client; no transaction spans them.                                      *)
(***************************************************************************)
MaxCallers == 3

NewCall == [at |-> "unset_current", rendition |-> 0, response |-> ""]

\* create_rendition: renditions.update({"is_current": False})
\*                   .eq("project_id", project_id)
UnsetCurrent ==
  /\ \E i \in 1..Len(app.requests) :
       /\ app.requests[i].at = "unset_current"
       /\ app' = [app EXCEPT
                    !.renditions =
                       [r \in 1..Len(@) |-> [@[r] EXCEPT !.is_current = FALSE]],
                    !.requests[i].at = "insert"]
  /\ UNCHANGED <<doc, meta, hashseed, base_font_size, page_margins, pc,
                 page_num, all_blocks, font_sizes, chapters, current_chapter,
                 next_block, content, raw_html, returned, prev, other>>

\* create_rendition: renditions.insert({..., "is_current": True})
InsertRendition ==
  /\ \E i \in 1..Len(app.requests) :
       /\ app.requests[i].at = "insert"
       /\ app' = [app EXCEPT
                    !.renditions = Append(@, Rendition(i, "preview_generated")),
                    !.requests[i].at = "update_rendition",
                    !.requests[i].rendition = Len(app.renditions) + 1]
  /\ UNCHANGED <<doc, meta, hashseed, base_font_size, page_margins, pc,
                 page_num, all_blocks, font_sizes, chapters, current_chapter,
                 next_block, content, raw_html, returned, prev, other>>

\* await db.update_rendition(rendition["id"], preview_html_path=..., ...)
SetPreviewPath ==
  /\ \E i \in 1..Len(app.requests) :
       /\ app.requests[i].at = "update_rendition"
       /\ app' = [app EXCEPT
                    !.renditions[app.requests[i].rendition].preview_html_path =
                        TRUE,
                    !.requests[i].at = "update_project"]
  /\ UNCHANGED <<doc, meta, hashseed, base_font_size, page_margins, pc,
                 page_num, all_blocks, font_sizes, chapters, current_chapter,
                 next_block, content, raw_html, returned, prev, other>>

\* await db.update_project_status(project_id, TEMPLATED); return
SetTemplated ==
  /\ \E i \in 1..Len(app.requests) :
       /\ app.requests[i].at = "update_project"
       /\ app' = [Respond(app, i, "template applied") EXCEPT
                    !.project.status = "templated"]
  /\ UNCHANGED <<doc, meta, hashseed, base_font_size, page_margins, pc,
                 page_num, all_blocks, font_sizes, chapters, current_chapter,
                 next_block, content, raw_html, returned, prev, other>>

NextRenditions ==
  \/ UnsetCurrent
  \/ InsertRendition
  \/ SetPreviewPath
  \/ SetTemplated

InitRenditions ==
  /\ doc = <<>>
  /\ meta = NoMeta
  /\ hashseed = 0
  /\ prev = NoRun
  /\ other = NoRun
  /\ Fresh
  /\ app = [NoTask EXCEPT !.project.status = "normalized",
                          !.requests = [i \in 1..MaxCallers |-> NewCall]]

SpecRenditions == InitRenditions /\ [][NextRenditions]_vars

\* no call of create_rendition is between its two statements
NoCallInside == \A i \in 1..Len(app.requests) : app.requests[i].at # "insert"

(***************************************************************************)
(* C30: whenever no create_rendition call is under way and the project     *)
(* has a rendition, exactly one rendition has is_current, and it is the    *)
(* one inserted last, which get_current_rendition therefore returns.       *)
(***************************************************************************)
C30_OneCurrentRendition ==
  (NoCallInside /\ app.renditions # <<>>) =>
    CurrentRenditions(app) = {Len(app.renditions)}

====
